---- MODULE Spec2Model ----
(***************************************************************************)
(* A model of the credential store (EdaApiClient: token cache, login with  *)
(* retry and backoff, client-secret lookup, Execute) and of the value      *)
(* marshalling helpers (tfutils) of terraform-provider-vmware-v1.          *)
(***************************************************************************)
EXTENDS Integers, Sequences, FiniteSets, TLC

(* ------------------------------------------------------------------ *)
(* Bounds of the model                                                  *)
(* ------------------------------------------------------------------ *)

\* Number of goroutines calling Execute on one constructed client.
NumCallers == 2
\* Elapsed seconds are counted exactly up to this value; the value itself
\* stands for "this many seconds or more".
MaxElapsed == 2
\* Largest expires_in the identity provider answers with.
MaxExpiresIn == 1
\* Largest number of entries in the clients listing.
MaxMatches == 2
MaxElems == 2
MaxEntries == 2
\* Number of calls made on one model
MaxCalls == 2
\* Largest number of underscore-separated segments of a name
MaxSegs == 3
\* Number of goroutines that convert values
NumTravs == 2

(* ------------------------------------------------------------------ *)
(* Program constants                                                    *)
(* ------------------------------------------------------------------ *)

\* login(): maxRetries := 5
maxRetries == 5

\* login(): baseDelay := time.Second, counted in seconds
baseDelay == 1

KEY_PASSWORD_GRANT == "password"
KEY_REFRESH_GRANT == "refresh_token"

(* ------------------------------------------------------------------ *)
(* Data                                                                 *)
(* ------------------------------------------------------------------ *)

Ctor == 0
Callers == 1 .. NumCallers
Procs == {Ctor} \cup Callers
NoHolder == -1

GrantIds == {"keyCloakGrant", "edaGrant"}

AccessTokens == {"", "t1", "t2"}
RefreshTokens == {"", "r1"}
ExpiresValues == 0 .. MaxExpiresIn
Secrets == {"s1"}

Min(a, b) == IF a < b THEN a ELSE b

\* type grant struct: the zero value &grant{} of NewEdaApiClient
ZeroGrant ==
  [AccessToken |-> "", RefreshToken |-> "", ExpiresInSecs |-> 0, timestamp |-> "nil"]

\* The configuration handed to NewEdaApiClient. Only EdaClientSecret varies.
Configs ==
  { [KcUsername |-> "kcadmin", KcPassword |-> "kcpw", KcClientID |-> "admin-cli",
     EdaUsername |-> "admin", EdaPassword |-> "edapw", EdaClientID |-> "eda",
     EdaClientSecret |-> s] : s \in {""} \cup Secrets }

NoError == [kind |-> "none", attempts |-> 0, last |-> ""]
Error(k) == [kind |-> k, attempts |-> 0, last |-> ""]

\* What the identity provider can answer to a token request: a transport
\* error, an error status, or a 2xx whose JSON body holds the fields named in
\* has. The bodies drawn hold all three fields or none of them.
TokenFields == {"access_token", "refresh_token", "expires_in"}
NoAnswer(st) ==
  [status |-> st, has |-> {}, AccessToken |-> "", RefreshToken |-> "", ExpiresInSecs |-> 0]
LoginResponses ==
  { NoAnswer("transport"), NoAnswer("error"), NoAnswer("ok") }
  \cup
  { [status |-> "ok", has |-> TokenFields, AccessToken |-> a, RefreshToken |-> r,
     ExpiresInSecs |-> e] :
      a \in AccessTokens, r \in RefreshTokens, e \in ExpiresValues }

\* The answers drawn for the keycloak pair, whose grant nothing reads once
\* NewEdaApiClient has returned: one failure of each kind, an empty token and
\* a full body.
KcLoginResponses ==
  { r \in LoginResponses :
      \/ r.status # "ok"
      \/ /\ r.has = TokenFields
         /\ r.AccessToken \in {"", "t1"}
         /\ r.RefreshToken = "r1"
         /\ r.ExpiresInSecs = MaxExpiresIn }

\* An entry of the clients listing: with a string "secret", with a "secret"
\* that is not a string, or without the field.
ListingEntries ==
  { [has |-> FALSE, isString |-> FALSE, secret |-> ""],
    [has |-> TRUE, isString |-> FALSE, secret |-> ""] }
  \cup { [has |-> TRUE, isString |-> TRUE, secret |-> s] : s \in Secrets }

Listings == UNION { [1 .. n -> ListingEntries] : n \in 0 .. MaxMatches }

(* ------------------------------------------------------------------ *)
(* State                                                                *)
(* ------------------------------------------------------------------ *)

VARIABLES
  cfg,          \* EdaApiClient.cfg
  client,       \* what NewEdaApiClient returned: "constructing", "ready", "failed"
  ctorErr,      \* the error NewEdaApiClient returned
  clientSecret, \* edaCred.clientSecret
  grant,        \* keyCloakGrant and edaGrant
  elapsed,      \* time.Since(*grnt.timestamp) in seconds, per grant
  tokenLock,    \* holder of EdaApiClient.tokenLock
  pc,           \* position of each goroutine
  local,        \* locals of getAccessToken/login per goroutine
  result,       \* getClientSecret: the decoded listing
  loginsSent,   \* DoLogin requests sent by the current call
  slept,        \* seconds slept in backoff by the current call
  apiSent,      \* DoExecute requests sent by the current Execute call
  execErr,      \* the error the last Execute call returned
  panicked,     \* a goroutine panicked: the process is gone
  convPc,       \* position of the conversion: "off", "input", "typed", "back", "failed"
  attrTypeIf,   \* newValue: the attribute type
  data,         \* newValue: the native value
  attrValIf,    \* what newValue returned, the argument of fromValue
  anyVal,       \* what fromValue returned
  model,        \* the model struct: its fields in order, tfsdk name and attr.Value
  response,     \* AnyMapToModel: resp, the decoded response
  body,         \* what ModelToAnyMap returned
  modelOp,      \* the last function called on the model
  modelErr,     \* whether that call returned an error
  calls,        \* number of calls made on the model
  namePc,       \* position of the name conversion: "off", "input", "camel", "snake"
  nameIn,       \* the name handed to SnakeToCamel
  camelName,    \* what SnakeToCamel returned, the argument of CamelToSnake
  snakeName,    \* what CamelToSnake returned
  visitCounter, \* tfutils.visitCounter
  ignoreCaseVisitor, \* tfutils.ignoreCaseVisitor: the visitIds it holds true for
  mapWriters,   \* the goroutines inside a write of ignoreCaseVisitor
  fatal,        \* the Go runtime ended the process with a fatal error
  tpc,          \* position of each converting goroutine: "off", "loop",
                \* "insert", "call", "store", "delete", "done", "failed"
  stack,        \* the calls of newValue or fromValue each goroutine is in
  ret,          \* what the outermost call of each goroutine returned
  job,          \* the outermost call of each goroutine
  issued        \* the visitIds newVisitID returned to each goroutine

storeVars ==
  << cfg, client, ctorErr, clientSecret, grant, elapsed, tokenLock, pc, local,
     result, loginsSent, slept, apiSent, execErr, panicked >>

modelVars == << model, response, body, modelOp, modelErr, calls >>

nameVars == << namePc, nameIn, camelName, snakeName >>

convVars == << convPc, attrTypeIf, data, attrValIf, anyVal >>

visitVars ==
  << visitCounter, ignoreCaseVisitor, mapWriters, fatal, tpc, stack, ret, job,
     issued >>

marshalVars == << convVars, modelVars, nameVars, visitVars >>

vars == << storeVars, marshalVars >>

NoBody == [grant_type |-> "", client_id |-> "", client_secret |-> "",
           username |-> "", password |-> "", refresh_token |-> ""]

NoLocal == [body |-> NoBody, attempt |-> 0, token |-> "", err |-> NoError]

InitStore ==
  /\ cfg \in Configs
  /\ client = "constructing"
  /\ ctorErr = NoError
  /\ clientSecret = ""
  /\ grant = [g \in GrantIds |-> ZeroGrant]
  /\ elapsed = [g \in GrantIds |-> 0]
  /\ tokenLock = NoHolder
  /\ pc = [p \in Procs |-> IF p = Ctor THEN "new" ELSE "idle"]
  /\ local = [p \in Procs |-> NoLocal]
  /\ result = << >>
  /\ loginsSent = [p \in Procs |-> 0]
  /\ slept = [p \in Procs |-> 0]
  /\ apiSent = [p \in Procs |-> 0]
  /\ execErr = [p \in Procs |-> NoError]
  /\ panicked = FALSE

(* ------------------------------------------------------------------ *)
(* Credentials and the token request body                               *)
(* ------------------------------------------------------------------ *)

\* Every goroutine on the keycloak grant
GrantOfKeycloak(p) == "keyCloakGrant"

\* getEdaAccessToken passes edaGrant; getClientSecret passes keyCloakGrant.
\* Only NewEdaApiClient calls getClientSecret.
GrantOf(p) == IF p = Ctor THEN "keyCloakGrant" ELSE "edaGrant"

\* edaCred, and the keyCloakCred getClientSecret builds (no client secret).
CredOf(p) ==
  IF p = Ctor
  THEN [clientId |-> cfg.KcClientID, clientSecret |-> "",
        username |-> cfg.KcUsername, password |-> cfg.KcPassword]
  ELSE [clientId |-> cfg.EdaClientID, clientSecret |-> clientSecret,
        username |-> cfg.EdaUsername, password |-> cfg.EdaPassword]

getOauthBody(cred, refreshToken) ==
  IF refreshToken # ""
  THEN [NoBody EXCEPT !.client_id = cred.clientId,
                      !.client_secret = cred.clientSecret,
                      !.grant_type = KEY_REFRESH_GRANT,
                      !.refresh_token = refreshToken]
  ELSE [NoBody EXCEPT !.client_id = cred.clientId,
                      !.client_secret = cred.clientSecret,
                      !.grant_type = KEY_PASSWORD_GRANT,
                      !.username = cred.username,
                      !.password = cred.password]

\* A validity check that forgets the comparison with the elapsed time
ExpiredOnceStamped(g) ==
  grant[g].timestamp = "set" /\ grant[g].ExpiresInSecs # 0

\* getAccessToken: expired := elapsed > grnt.ExpiresInSecs, computed only
\* when the timestamp is set and ExpiresInSecs is not 0.
Expired(g) ==
  /\ grant[g].timestamp # "nil"
  /\ grant[g].ExpiresInSecs # 0
  /\ elapsed[g] > grant[g].ExpiresInSecs

\* A getAccessToken that never uses the cached token
UseCachedNever(g) == FALSE

\* A validity check that forgets the expiry
UseCachedWhenPresent(g) == grant[g].AccessToken # ""

\* getAccessToken: the cached token is returned when not expired and not empty.
UseCached(g) == ~Expired(g) /\ grant[g].AccessToken # ""

\* A choice of grant that refreshes whenever a refresh token is stored
RefreshArgWhenever(g) == grant[g].RefreshToken

\* getAccessToken: the refresh token handed to getOauthBody ("" asks for the
\* password grant).
RefreshArg(g) ==
  IF Expired(g) /\ grant[g].RefreshToken # "" THEN grant[g].RefreshToken ELSE ""

\* A lock that never blocks
CanLockAlways(p) == TRUE

\* tokenLock.Lock() returns only when no goroutine holds the mutex.
CanLock(p) == tokenLock = NoHolder

\* A client that reads every answer into the grant
UnmarshalAlways(grnt, resp) ==
  [grnt EXCEPT !.AccessToken = resp.AccessToken,
               !.RefreshToken = resp.RefreshToken,
               !.ExpiresInSecs = resp.ExpiresInSecs]

\* DoLogin with SetResult(grnt): a 2xx body is unmarshalled into the grant,
\* fields absent from the body keep their value; anything else leaves the
\* grant alone.
Unmarshal(grnt, resp) ==
  [grnt EXCEPT
     !.AccessToken = IF "access_token" \in resp.has THEN resp.AccessToken ELSE @,
     !.RefreshToken = IF "refresh_token" \in resp.has THEN resp.RefreshToken ELSE @,
     !.ExpiresInSecs = IF "expires_in" \in resp.has THEN resp.ExpiresInSecs ELSE @]

\* A grant getAccessToken can still be called with: edaGrant always,
\* keyCloakGrant until NewEdaApiClient has returned.
InUse(g) == g = "edaGrant" \/ client = "constructing"

\* time passing by d seconds, seen from every grant that has a timestamp and
\* whose age can still be read
Later(d) ==
  [g \in GrantIds |->
     IF grant[g].timestamp # "nil" /\ InUse(g)
     THEN Min(elapsed[g] + d, MaxElapsed) ELSE elapsed[g]]

RECURSIVE Pow2(_)
Pow2(n) == IF n = 0 THEN 1 ELSE 2 * Pow2(n - 1)

\* A backoff that grows by one second per attempt
BackoffLinear(attempt) == baseDelay * (attempt + 1)

\* login(): time.Sleep(baseDelay * (1 << attempt))
Backoff(attempt) == baseDelay * Pow2(attempt)

\* A retry loop that gives up one attempt early
RetryAfterShort(attempt) == attempt < maxRetries - 2

\* login(): "if attempt < maxRetries-1" sleeps and tries again
RetryAfter(attempt) == attempt < maxRetries - 1

(* ------------------------------------------------------------------ *)
(* The callers of getAccessToken                                        *)
(* ------------------------------------------------------------------ *)

\* An Execute that forgets to check the error of getEdaAccessToken
SendsRequestAlways(err) == TRUE

\* Execute: whether DoExecute is called after getEdaAccessToken returned
SendsRequest(err) == err = NoError

\* Execute after getEdaAccessToken returned (token, err): return the error,
\* or call DoExecute with the token.
ExecuteRequest(p, token, err) ==
  /\ IF SendsRequest(err)
     THEN /\ apiSent' = [apiSent EXCEPT ![p] = @ + 1]
          /\ local' = [local EXCEPT ![p] = [NoLocal EXCEPT !.token = token]]
          /\ pc' = [pc EXCEPT ![p] = "api_wait"]
          /\ UNCHANGED execErr
     ELSE /\ execErr' = [execErr EXCEPT ![p] = err]
          /\ local' = [local EXCEPT ![p] = NoLocal]
          /\ pc' = [pc EXCEPT ![p] = "done"]
          /\ UNCHANGED apiSent
  /\ UNCHANGED << ctorErr, client >>

\* getClientSecret after getAccessToken returned (accessToken, err): the
\* error is returned (and NewEdaApiClient returns nil, err), or the listing
\* is queried with the token.
getClientSecretQuery(token, err) ==
  /\ IF err # NoError
     THEN /\ ctorErr' = err
          /\ client' = "failed"
          /\ local' = [local EXCEPT ![Ctor] = NoLocal]
          /\ pc' = [pc EXCEPT ![Ctor] = "ctor_failed"]
     ELSE /\ local' = [local EXCEPT ![Ctor] = [NoLocal EXCEPT !.token = token]]
          /\ pc' = [pc EXCEPT ![Ctor] = "query_wait"]
          /\ UNCHANGED << ctorErr, client >>
  /\ UNCHANGED << apiSent, execErr >>

\* getAccessToken returns (token, err) to the function that called it.
ReturnToken(p, token, err) ==
  IF p = Ctor THEN getClientSecretQuery(token, err) ELSE ExecuteRequest(p, token, err)

(* ------------------------------------------------------------------ *)
(* getAccessToken and login                                             *)
(* ------------------------------------------------------------------ *)

\* getAccessToken up to its first DoLogin: take the lock, then return the
\* cached token (the deferred Unlock runs) or send the first login request.
getAccessToken(p) ==
  LET g == GrantOf(p) IN
  /\ pc[p] = "call_token"
  /\ CanLock(p)
  /\ IF UseCached(g)
     THEN /\ ReturnToken(p, grant[g].AccessToken, NoError)
          /\ UNCHANGED << tokenLock, loginsSent >>
     ELSE /\ local' = [local EXCEPT ![p].body = getOauthBody(CredOf(p), RefreshArg(g)),
                                    ![p].attempt = 0]
          /\ tokenLock' = p
          /\ loginsSent' = [loginsSent EXCEPT ![p] = 1]
          /\ pc' = [pc EXCEPT ![p] = "login_wait"]
          /\ UNCHANGED << ctorErr, client, apiSent, execErr >>
  /\ UNCHANGED << cfg, clientSecret, grant, elapsed, result, slept, panicked >>
  /\ UNCHANGED marshalVars

\* A login that forgets the timestamp
StampedNever(grnt) == grnt

\* login(): "timestamp := time.Now(); grnt.timestamp = &timestamp"
Stamped(grnt) == [grnt EXCEPT !.timestamp = "set"]

\* A return that leaves the lock with the goroutine that took it
UnlockMissing(p) == p

\* getAccessToken: "defer c.tokenLock.Unlock()" runs on every return
Unlock(p) == NoHolder

\* getAccessToken after login returned nil: the token, or "access token is empty"
TokenError(token) == IF token = "" THEN Error("empty_token") ELSE NoError

\* login(): DoLogin answered without error and with a non-error status. The
\* body is in the grant, the timestamp is set, login returns nil and
\* getAccessToken returns.
LoginSucceeds(p, resp) ==
  LET g == GrantOf(p)
      grnt == Stamped(Unmarshal(grant[g], resp))
  IN
  /\ grant' = [grant EXCEPT ![g] = grnt]
  /\ elapsed' = [elapsed EXCEPT ![g] = 0]
  /\ tokenLock' = Unlock(p)
  /\ loginsSent' = [loginsSent EXCEPT ![p] = 0]
  /\ slept' = [slept EXCEPT ![p] = 0]
  /\ ReturnToken(p, grnt.AccessToken, TokenError(grnt.AccessToken))

\* login(): "login failed after %d attempts: ..." with the last error or response
LoginFailed(resp) ==
  [kind |-> "login_failed", attempts |-> maxRetries, last |-> resp.status]

\* login(): the attempt failed. Either the backoff sleep comes next, or the
\* loop is over, login returns the error and getAccessToken returns it.
LoginFails(p, resp) ==
  /\ grant' = [grant EXCEPT ![GrantOf(p)] = Unmarshal(@, resp)]
  /\ UNCHANGED elapsed
  /\ IF RetryAfter(local[p].attempt)
     THEN /\ pc' = [pc EXCEPT ![p] = "sleep"]
          /\ UNCHANGED << tokenLock, local, loginsSent, slept, ctorErr, client,
                          apiSent, execErr >>
     ELSE /\ tokenLock' = Unlock(p)
          /\ loginsSent' = [loginsSent EXCEPT ![p] = 0]
          /\ slept' = [slept EXCEPT ![p] = 0]
          /\ ReturnToken(p, "", LoginFailed(resp))

\* The answers drawn for goroutine p's login requests
ResponsesFor(p) == IF p = Ctor THEN KcLoginResponses ELSE LoginResponses

\* The login request in flight is answered with resp.
DoLogin(p, resp) ==
  /\ pc[p] = "login_wait"
  /\ IF resp.status = "ok" THEN LoginSucceeds(p, resp) ELSE LoginFails(p, resp)
  /\ UNCHANGED << cfg, clientSecret, result, panicked >>
  /\ UNCHANGED marshalVars

DoLoginReturn(p) == \E resp \in ResponsesFor(p) : DoLogin(p, resp)

\* login(): the backoff sleep, holding the lock, then the next attempt.
Sleep(p) ==
  /\ pc[p] = "sleep"
  /\ elapsed' = Later(Backoff(local[p].attempt))
  /\ slept' = [slept EXCEPT ![p] = @ + Backoff(local[p].attempt)]
  /\ local' = [local EXCEPT ![p].attempt = @ + 1]
  /\ loginsSent' = [loginsSent EXCEPT ![p] = @ + 1]
  /\ pc' = [pc EXCEPT ![p] = "login_wait"]
  /\ UNCHANGED << cfg, client, ctorErr, clientSecret, grant, tokenLock, result,
                  apiSent, execErr, panicked >>
  /\ UNCHANGED marshalVars

\* One second passes.
Tick ==
  /\ ~panicked
  /\ elapsed' = Later(1)
  /\ UNCHANGED << cfg, client, ctorErr, clientSecret, grant, tokenLock, pc, local,
                  result, loginsSent, slept, apiSent, execErr, panicked >>
  /\ UNCHANGED marshalVars

(* ------------------------------------------------------------------ *)
(* NewEdaApiClient and getClientSecret                                  *)
(* ------------------------------------------------------------------ *)

\* NewEdaApiClient: with EdaClientSecret configured the client is returned
\* at once; otherwise getClientSecret is called, which first asks for a
\* token of the keycloak pair.
NewEdaApiClient ==
  /\ pc[Ctor] = "new"
  /\ IF cfg.EdaClientSecret # ""
     THEN /\ clientSecret' = cfg.EdaClientSecret
          /\ client' = "ready"
          /\ pc' = [pc EXCEPT ![Ctor] = "ctor_done"]
     ELSE /\ pc' = [pc EXCEPT ![Ctor] = "call_token"]
          /\ UNCHANGED << clientSecret, client >>
  /\ UNCHANGED << cfg, ctorErr, grant, elapsed, tokenLock, local, result,
                  loginsSent, slept, apiSent, execErr, panicked >>
  /\ UNCHANGED marshalVars

\* DoQuery returns: a transport error is returned as it is; otherwise the
\* body (an error status leaves the listing empty) is decoded into result.
DoQueryReturn ==
  /\ pc[Ctor] = "query_wait"
  /\ \/ /\ ctorErr' = Error("transport")
        /\ client' = "failed"
        /\ pc' = [pc EXCEPT ![Ctor] = "ctor_failed"]
        /\ UNCHANGED result
     \/ /\ result' \in Listings
        /\ pc' = [pc EXCEPT ![Ctor] = "query_done"]
        /\ UNCHANGED << ctorErr, client >>
  /\ local' = [local EXCEPT ![Ctor] = NoLocal]
  /\ UNCHANGED << cfg, clientSecret, grant, elapsed, tokenLock,
                  loginsSent, slept, apiSent, execErr, panicked >>
  /\ UNCHANGED marshalVars

\* A lookup that reads the last entry of the listing
MatchIndexLast(res) == Len(res)

\* getClientSecret: the entry of the listing the secret is read from, result[0]
MatchIndex(res) == 1

\* A lookup that takes a missing "secret" for an empty one
SecretOfLenient(res) ==
  IF Len(res) = 0
  THEN [secret |-> "", err |-> Error("client_not_found"), panics |-> FALSE]
  ELSE IF ~res[1].has \/ ~res[1].isString
  THEN [secret |-> "", err |-> NoError, panics |-> FALSE]
  ELSE [secret |-> res[1].secret, err |-> NoError, panics |-> FALSE]

\* getClientSecret, from len(result) == 0 on: the secret, the error, or the
\* panic of secret.(string) on a "secret" that is not a string.
SecretOf(res) ==
  IF Len(res) = 0
  THEN [secret |-> "", err |-> Error("client_not_found"), panics |-> FALSE]
  ELSE IF ~res[MatchIndex(res)].has
  THEN [secret |-> "", err |-> Error("client_secret_not_found"), panics |-> FALSE]
  ELSE IF ~res[MatchIndex(res)].isString
  THEN [secret |-> "", err |-> NoError, panics |-> TRUE]
  ELSE [secret |-> res[MatchIndex(res)].secret, err |-> NoError, panics |-> FALSE]

\* getClientSecret returns, and NewEdaApiClient stores what it returned in
\* edaCred.clientSecret and returns the client or the error. Nothing reads
\* the age of the keycloak grant from here on: it is no longer counted.
getClientSecretReturn ==
  LET r == SecretOf(result) IN
  /\ pc[Ctor] = "query_done"
  /\ result' = << >>
  /\ IF r.panics
     THEN /\ panicked' = TRUE
          /\ pc' = [pc EXCEPT ![Ctor] = "panicked"]
          /\ UNCHANGED << clientSecret, ctorErr, client >>
     ELSE IF r.err # NoError
     THEN /\ ctorErr' = r.err
          /\ client' = "failed"
          /\ clientSecret' = r.secret
          /\ pc' = [pc EXCEPT ![Ctor] = "ctor_failed"]
          /\ UNCHANGED panicked
     ELSE /\ clientSecret' = r.secret
          /\ client' = "ready"
          /\ pc' = [pc EXCEPT ![Ctor] = "ctor_done"]
          /\ UNCHANGED << panicked, ctorErr >>
  /\ elapsed' = [elapsed EXCEPT !["keyCloakGrant"] = 0]
  /\ UNCHANGED << cfg, grant, tokenLock, local, loginsSent, slept, apiSent, execErr >>
  /\ UNCHANGED marshalVars

(* ------------------------------------------------------------------ *)
(* Execute                                                              *)
(* ------------------------------------------------------------------ *)

\* A goroutine calls Create, Get, GetByQuery, Update or Delete, all of which
\* call Execute, which calls getEdaAccessToken.
ExecuteCall(p) ==
  /\ pc[p] \in {"idle", "done"}
  /\ client = "ready"
  /\ pc' = [pc EXCEPT ![p] = "call_token"]
  /\ apiSent' = [apiSent EXCEPT ![p] = 0]
  /\ execErr' = [execErr EXCEPT ![p] = NoError]
  /\ UNCHANGED << cfg, client, ctorErr, clientSecret, grant, elapsed, tokenLock,
                  local, result, loginsSent, slept, panicked >>
  /\ UNCHANGED marshalVars

\* What DoExecute can come back with: success, a transport error, an error status
ExecuteOutcomes == {NoError, Error("transport"), Error("http_status")}

\* DoExecute returns, and Execute returns nil or the error.
DoExecuteReturn(p) ==
  /\ pc[p] = "api_wait"
  /\ \E e \in ExecuteOutcomes : execErr' = [execErr EXCEPT ![p] = e]
  /\ local' = [local EXCEPT ![p] = NoLocal]
  /\ pc' = [pc EXCEPT ![p] = "done"]
  /\ UNCHANGED << cfg, client, ctorErr, clientSecret, grant, elapsed, tokenLock,
                  result, loginsSent, slept, apiSent, panicked >>
  /\ UNCHANGED marshalVars

(* ------------------------------------------------------------------ *)
(* tfutils: names                                                       *)
(* ------------------------------------------------------------------ *)

\* A Go string is the sequence of its characters.
LowerLetters ==
  << "a", "b", "c", "d", "e", "f", "g", "h", "i", "j", "k", "l", "m",
     "n", "o", "p", "q", "r", "s", "t", "u", "v", "w", "x", "y", "z" >>
UpperLetters ==
  << "A", "B", "C", "D", "E", "F", "G", "H", "I", "J", "K", "L", "M",
     "N", "O", "P", "Q", "R", "S", "T", "U", "V", "W", "X", "Y", "Z" >>

\* unicode.ToLower and unicode.ToUpper on one character
ToLower(c) ==
  IF \E i \in DOMAIN UpperLetters : UpperLetters[i] = c
  THEN LowerLetters[CHOOSE i \in DOMAIN UpperLetters : UpperLetters[i] = c]
  ELSE c
ToUpper(c) ==
  IF \E i \in DOMAIN LowerLetters : LowerLetters[i] = c
  THEN UpperLetters[CHOOSE i \in DOMAIN LowerLetters : LowerLetters[i] = c]
  ELSE c

\* strings.ToLower
ToLowerString(str) == [i \in 1 .. Len(str) |-> ToLower(str[i])]

snakeToCamelNames ==
  (<<"e", "x", "t", "e", "r", "n", "a", "l", "_", "i", "d">> :> <<"e", "x", "t", "e", "r", "n", "a", "l", "I", "d">>)
  @@ (<<"l", "a", "b", "e", "l", "_", "s", "e", "l", "e", "c", "t", "o", "r">> :> <<"l", "a", "b", "e", "l", "-", "s", "e", "l", "e", "c", "t", "o", "r">>)
  @@ (<<"v", "c", "s", "a", "_", "t", "l", "s", "_", "v", "e", "r", "i", "f", "y">> :> <<"v", "c", "s", "a", "T", "l", "s", "V", "e", "r", "i", "f", "y">>)

acronyms ==
  (<<"a", "r", "p">> :> <<"A", "R", "P">>)
  @@ (<<"a", "r", "p", "n", "d">> :> <<"A", "R", "P", "N", "D">>)
  @@ (<<"a", "s">> :> <<"A", "S">>)
  @@ (<<"a", "s", "n">> :> <<"A", "S", "N">>)
  @@ (<<"a", "s", "v", "p", "n">> :> <<"A", "S", "V", "P", "N">>)
  @@ (<<"b", "g", "p">> :> <<"B", "G", "P">>)
  @@ (<<"d", "h", "c", "p">> :> <<"D", "H", "C", "P">>)
  @@ (<<"d", "n">> :> <<"D", "N">>)
  @@ (<<"e", "c", "m", "p">> :> <<"E", "C", "M", "P">>)
  @@ (<<"e", "v", "p", "n">> :> <<"E", "V", "P", "N">>)
  @@ (<<"f", "i", "b">> :> <<"F", "I", "B">>)
  @@ (<<"f", "q", "d", "n">> :> <<"F", "Q", "D", "N">>)
  @@ (<<"i", "c", "m", "p">> :> <<"I", "C", "M", "P">>)
  @@ (<<"i", "d">> :> <<"I", "D">>)
  @@ (<<"i", "p">> :> <<"I", "P">>)
  @@ (<<"i", "p", "v", "4">> :> <<"I", "P", "v", "4">>)
  @@ (<<"i", "p", "v", "6">> :> <<"I", "P", "v", "6">>)
  @@ (<<"i", "r", "b">> :> <<"I", "R", "B">>)
  @@ (<<"l", "2", "c", "p">> :> <<"L", "2", "C", "P">>)
  @@ (<<"l", "d", "a", "p">> :> <<"L", "D", "A", "P">>)
  @@ (<<"m", "a", "c">> :> <<"M", "A", "C">>)
  @@ (<<"m", "t", "u">> :> <<"M", "T", "U">>)
  @@ (<<"n", "d">> :> <<"N", "D">>)
  @@ (<<"p", "d", "u">> :> <<"P", "D", "U">>)
  @@ (<<"p", "f", "c">> :> <<"P", "F", "C">>)
  @@ (<<"r", "r">> :> <<"R", "R">>)
  @@ (<<"s", "a", "f", "i">> :> <<"S", "A", "F", "I">>)
  @@ (<<"t", "l", "s">> :> <<"T", "L", "S">>)
  @@ (<<"u", "r", "i">> :> <<"U", "R", "I">>)
  @@ (<<"u", "r", "l">> :> <<"U", "R", "L">>)
  @@ (<<"v", "l", "a", "n">> :> <<"V", "L", "A", "N">>)
  @@ (<<"v", "p", "n">> :> <<"V", "P", "N">>)

ignoreCaseNames == { <<"a", "n", "n", "o", "t", "a", "t", "i", "o", "n", "s">>,
                     <<"l", "a", "b", "e", "l", "s">> }

\* strings.Split(str, "_")
RECURSIVE Split(_)
Split(str) ==
  IF \A i \in DOMAIN str : str[i] # "_"
  THEN << str >>
  ELSE LET i == CHOOSE j \in DOMAIN str :
                  str[j] = "_" /\ \A h \in 1 .. (j - 1) : str[h] # "_"
       IN << SubSeq(str, 1, i - 1) >> \o Split(SubSeq(str, i + 1, Len(str)))

\* strings.Join(result, "")
RECURSIVE Join(_)
Join(strs) == IF strs = << >> THEN << >> ELSE Head(strs) \o Join(Tail(strs))

\* A loop body that knows no acronyms
CamelPartPlain(parts, i) ==
  LET lower == ToLowerString(parts[i]) IN
  IF i > 1 THEN << ToUpper(Head(lower)) >> \o Tail(lower) ELSE lower

\* SnakeToCamel, the loop body for parts[i]: the acronym, or the lower-cased
\* part with its first letter in upper case unless it is the first part
CamelPart(parts, i) ==
  LET lower == ToLowerString(parts[i]) IN
  IF lower \in DOMAIN acronyms THEN acronyms[lower]
  ELSE IF i > 1 THEN << ToUpper(Head(lower)) >> \o Tail(lower)
  ELSE lower

SnakeToCamel(str) ==
  IF str = << >> THEN << >>
  ELSE IF str \in DOMAIN snakeToCamelNames THEN snakeToCamelNames[str]
  ELSE LET parts == Split(str)
           NotEmpty(i) == parts[i] # << >>
           kept == SelectSeq([i \in 1 .. Len(parts) |-> i], NotEmpty)
           camel == [j \in 1 .. Len(kept) |-> CamelPart(parts, kept[j])]
       IN IF camel = << >> THEN << >>
          ELSE Join(<< ToLowerString(camel[1]) >> \o Tail(camel))

camelToSnakeNames == << >>

Digits == { "0", "1", "2", "3", "4", "5", "6", "7", "8", "9" }
IsUpper(c) == \E i \in DOMAIN UpperLetters : UpperLetters[i] = c
IsLowerOrDigit(c) == c \in Digits \/ \E i \in DOMAIN LowerLetters : LowerLetters[i] = c

\* A replacement that looks for ([a-z])([A-Z]) only
RECURSIVE ReplaceAllStringLetters(_)
ReplaceAllStringLetters(str) ==
  IF Len(str) < 2 THEN str
  ELSE IF IsLowerOrDigit(str[1]) /\ str[1] \notin Digits /\ IsUpper(str[2])
  THEN << str[1], "_", str[2] >> \o ReplaceAllStringLetters(SubSeq(str, 3, Len(str)))
  ELSE << str[1] >> \o ReplaceAllStringLetters(Tail(str))

\* CamelToSnake: re.ReplaceAllString(str, "${1}_${2}") for the expression
\* ([a-z0-9])([A-Z]), the matches taken from the left without overlap
RECURSIVE ReplaceAllString(_)
ReplaceAllString(str) ==
  IF Len(str) < 2 THEN str
  ELSE IF IsLowerOrDigit(str[1]) /\ IsUpper(str[2])
  THEN << str[1], "_", str[2] >> \o ReplaceAllString(SubSeq(str, 3, Len(str)))
  ELSE << str[1] >> \o ReplaceAllString(Tail(str))

CamelToSnake(str) ==
  IF str = << >> THEN << >>
  ELSE IF str \in DOMAIN camelToSnakeNames THEN camelToSnakeNames[str]
  ELSE ToLowerString(ReplaceAllString(str))

(* ------------------------------------------------------------------ *)
(* tfutils: attribute types, attribute values and native values         *)
(* ------------------------------------------------------------------ *)

\* attr.Type: the kind first, then the element type or the attribute types
BoolType == << "Bool" >>
Int64Type == << "Int64" >>
StringType == << "String" >>
ListType(elemType) == << "List", elemType >>
SetType(elemType) == << "Set", elemType >>
MapType(elemType) == << "Map", elemType >>
ObjectType(attrTypes) == << "Object", attrTypes >>
DynamicType == << "Dynamic" >>
TypeKind(attrType) == attrType[1]
ElementType(attrType) == attrType[2]
AttributeTypes(attrType) == attrType[2]

\* attr.Value: the null of a type, the unknown of a type, or a known value
\* of it. A known Dynamic value holds its underlying value.
NullValue(attrType) == << "null", attrType >>
UnknownValue(attrType) == << "unknown", attrType >>
KnownValue(attrType, v) == << "known", attrType, v >>
IsNull(attrVal) == attrVal[1] = "null"
IsUnknown(attrVal) == attrVal[1] = "unknown"
Type(attrVal) == attrVal[2]
Known(attrVal) == attrVal[3]

\* any: nil, bool, int, uint64, float64 (in tenths), string, []any,
\* map[string]any
Nil == << "nil" >>
GoBool(b) == << "bool", b >>
GoInt(n) == << "int", n >>
GoUint(n) == << "uint", n >>
\* uint64(math.MaxUint64), 2^64 - 1
GoUintMax == << "uintmax" >>
GoFloat(tenths) == << "float", tenths >>
GoString(s) == << "string", s >>
GoList(elems) == << "list", elems >>
GoMap(entries) == << "map", entries >>
GoKind(value) == value[1]
GoValue(value) == value[2]

\* The error newValue returns
ConvError == << "error" >>

\* strconv.ParseInt(v, 10, 64) on the strings drawn
ParseInt(s) ==
  IF s = "7" THEN [ok |-> TRUE, v |-> 7] ELSE [ok |-> FALSE, v |-> 0]

\* int64(v) of a float64 given in tenths: the fraction is cut off
Truncate(tenths) ==
  IF tenths >= 0 THEN tenths \div 10 ELSE -((-tenths) \div 10)

\* A conversion that forgets to cut the fraction off
NumToInt64Unscaled(value) ==
  CASE GoKind(value) = "int" -> [ok |-> TRUE, v |-> GoValue(value)]
    [] GoKind(value) = "float" -> [ok |-> TRUE, v |-> GoValue(value)]
    [] GoKind(value) = "string" -> ParseInt(GoValue(value))
    [] OTHER -> [ok |-> FALSE, v |-> 0]

\* NumToInt64: int64(v) keeps the 64 bits of an unsigned v, so that 2^64 - 1
\* comes out as -1, and cuts the fraction of a float off.
NumToInt64(value) ==
  CASE GoKind(value) = "int" -> [ok |-> TRUE, v |-> GoValue(value)]
    [] GoKind(value) = "uint" -> [ok |-> TRUE, v |-> GoValue(value)]
    [] GoKind(value) = "uintmax" -> [ok |-> TRUE, v |-> -1]
    [] GoKind(value) = "float" -> [ok |-> TRUE, v |-> Truncate(GoValue(value))]
    [] GoKind(value) = "string" -> ParseInt(GoValue(value))
    [] OTHER -> [ok |-> FALSE, v |-> 0]

\* One outcome for every index or key of F, each drawn from the set F holds
\* for it
Choices(F) ==
  { f \in [DOMAIN F -> UNION { F[x] : x \in DOMAIN F }] :
      \A x \in DOMAIN F : f[x] \in F[x] }

\* What newValue returns for a list, set, map or object whose parts can come
\* out as the sets in each: the error if a part can fail, and the value made
\* of every choice of parts that did not
Outcomes(attrType, each) ==
  { KnownValue(attrType, f) :
      f \in Choices([x \in DOMAIN each |-> each[x] \ {ConvError}]) }
  \cup (IF \E x \in DOMAIN each : ConvError \in each[x] THEN {ConvError} ELSE {})

\* Map and Object cases: whether the entry under key is converted with the
\* case of names kept (a visit that ignores case is open, or key opens one)
IgnoresCase(ignoreCase, key) == ignoreCase \/ key \in ignoreCaseNames

\* Map and Object cases: the key an entry is stored under
StoredKey(ignoreCase, key) ==
  IF IgnoresCase(ignoreCase, key) THEN key ELSE SnakeToCamel(key)

\* Map and Object cases: the map built by storing each[key] under
\* StoredKey(key), in the order Go ranges over the keys: where two keys are
\* stored under one, either value can be the one that stays
StoredUnder(ignoreCase, each) ==
  [ nk \in { StoredKey(ignoreCase, key) : key \in DOMAIN each } |->
      UNION { each[key] :
                key \in { x \in DOMAIN each : StoredKey(ignoreCase, x) = nk } } ]

\* newValue: the attr.Value of type attrType made from val, or the error;
\* ignoreCase is ignoreCaseVisitor[visitId]
RECURSIVE newValue(_, _, _)
newValue(attrType, val, ignoreCase) ==
  IF GoKind(val) = "nil" THEN {NullValue(attrType)}
  ELSE
  CASE TypeKind(attrType) = "Bool" ->
         IF GoKind(val) = "bool" THEN {KnownValue(attrType, GoValue(val))} ELSE {ConvError}
    [] TypeKind(attrType) = "Int64" ->
         IF NumToInt64(val).ok
         THEN {KnownValue(attrType, NumToInt64(val).v)} ELSE {ConvError}
    [] TypeKind(attrType) = "String" ->
         IF GoKind(val) = "string" THEN {KnownValue(attrType, GoValue(val))} ELSE {ConvError}
    [] TypeKind(attrType) = "Dynamic" -> {ConvError}
    [] TypeKind(attrType) \in {"List", "Set"} ->
         IF GoKind(val) # "list" THEN {ConvError}
         ELSE LET each == [i \in DOMAIN GoValue(val) |->
                             newValue(ElementType(attrType), GoValue(val)[i], ignoreCase)]
              IN Outcomes(attrType, each)
    [] TypeKind(attrType) = "Map" ->
         IF GoKind(val) # "map" THEN {ConvError}
         ELSE LET each == [key \in DOMAIN GoValue(val) |->
                             newValue(ElementType(attrType), GoValue(val)[key],
                                      IgnoresCase(ignoreCase, key))]
              IN Outcomes(attrType, StoredUnder(ignoreCase, each))
    [] TypeKind(attrType) = "Object" ->
         IF GoKind(val) # "map" THEN {ConvError}
         ELSE LET Field(name) ==
                    IF SnakeToCamel(name) \in DOMAIN GoValue(val)
                    THEN GoValue(val)[SnakeToCamel(name)] ELSE Nil
                  each == [name \in DOMAIN AttributeTypes(attrType) |->
                             newValue(AttributeTypes(attrType)[name], Field(name),
                                      IgnoresCase(ignoreCase, name))]
              IN Outcomes(attrType, each)

\* What a list, set, map or object fromValue builds of parts that come out as
\* the sets in each: the error if a part can fail, and every choice of parts
\* that did not
NativeOutcomes(kind, each) ==
  { << kind, f >> : f \in Choices([x \in DOMAIN each |-> each[x] \ {ConvError}]) }
  \cup (IF \E x \in DOMAIN each : ConvError \in each[x] THEN {ConvError} ELSE {})

\* fromValue: "if v.IsNull() || v.IsUnknown() { continue }"
Skipped(v) == IsNull(v) \/ IsUnknown(v)

\* fromValue: the native value of attrVal, or the error; ignoreCase is
\* ignoreCaseVisitor[visitId]. Null and unknown elements, entries and
\* attributes are skipped; a null or unknown handed in directly gives the
\* zero value of its type, and for a Dynamic (no underlying value) the error.
RECURSIVE fromValue(_, _)
fromValue(attrVal, ignoreCase) ==
  CASE TypeKind(Type(attrVal)) = "Bool" ->
         {GoBool(IF Skipped(attrVal) THEN FALSE ELSE Known(attrVal))}
    [] TypeKind(Type(attrVal)) = "Int64" ->
         {GoInt(IF Skipped(attrVal) THEN 0 ELSE Known(attrVal))}
    [] TypeKind(Type(attrVal)) = "String" ->
         {GoString(IF Skipped(attrVal) THEN "" ELSE Known(attrVal))}
    [] TypeKind(Type(attrVal)) = "Dynamic" ->
         IF Skipped(attrVal) THEN {ConvError} ELSE fromValue(Known(attrVal), ignoreCase)
    [] TypeKind(Type(attrVal)) \in {"List", "Set"} ->
         LET elems == IF Skipped(attrVal) THEN << >> ELSE Known(attrVal)
             NotSkipped(i) == ~Skipped(elems[i])
             kept == SelectSeq([i \in 1 .. Len(elems) |-> i], NotSkipped)
             each == [j \in 1 .. Len(kept) |-> fromValue(elems[kept[j]], ignoreCase)]
         IN NativeOutcomes("list", each)
    [] TypeKind(Type(attrVal)) \in {"Map", "Object"} ->
         LET elems == IF Skipped(attrVal) THEN << >> ELSE Known(attrVal)
             kept == { key \in DOMAIN elems : ~Skipped(elems[key]) }
             each == [key \in kept |->
                        fromValue(elems[key], IgnoresCase(ignoreCase, key))]
         IN NativeOutcomes("map", StoredUnder(ignoreCase, each))

(* ------------------------------------------------------------------ *)
(* tfutils: the conversions as steps                                    *)
(* ------------------------------------------------------------------ *)

\* The attribute types drawn
NameAndVlan ==
  ObjectType((<<"n", "a", "m", "e">> :> StringType)
             @@ (<<"v", "l", "a", "n", "_", "i", "d">> :> Int64Type))
VlanOnly ==
  ObjectType(<<"v", "l", "a", "n", "_", "i", "d">> :> Int64Type)
LabelsObject ==
  ObjectType(<<"l", "a", "b", "e", "l", "s">> :> VlanOnly)
LabelsAndName ==
  ObjectType((<<"l", "a", "b", "e", "l", "s">> :> MapType(StringType))
             @@ (<<"n", "a", "m", "e">> :> StringType))
AttrTypes ==
  { BoolType, Int64Type, StringType,
    ListType(StringType), ListType(Int64Type), SetType(StringType),
    MapType(StringType), NameAndVlan, LabelsAndName, LabelsObject,
    ListType(VlanOnly) }

\* The keys drawn for native maps
MapKeys ==
  { <<"a">>, <<"A">>, <<"a", "_", "b">>, <<"l", "a", "b", "e", "l", "s">> }

\* Sequences of at most n elements of S
SeqsUpTo(S, n) == UNION { [1 .. m -> S] : m \in 0 .. n }

\* Maps with at most n of the keys of valuesAt, the entry of key drawn from
\* valuesAt[key]
MapsOver(valuesAt, n) ==
  UNION { Choices([key \in D |-> valuesAt[key]]) :
            D \in { X \in SUBSET DOMAIN valuesAt : Cardinality(X) <= n } }

\* The native values drawn for an attribute type: nil, the values of its
\* shape, and for Int64 every kind of number NumToInt64 takes
RECURSIVE NativeValues(_)
NativeValues(attrType) ==
  {Nil} \cup
  CASE TypeKind(attrType) = "Bool" -> {GoBool(TRUE)}
    [] TypeKind(attrType) = "Int64" ->
         {GoInt(7), GoUint(7), GoUintMax, GoFloat(70), GoFloat(75), GoFloat(-75),
          GoString("7")}
    [] TypeKind(attrType) = "String" -> {GoString("x")}
    [] TypeKind(attrType) \in {"List", "Set"} ->
         { GoList(s) : s \in SeqsUpTo(NativeValues(ElementType(attrType)), MaxElems) }
    [] TypeKind(attrType) = "Map" ->
         LET valuesAt == [key \in MapKeys |-> NativeValues(ElementType(attrType))]
         IN { GoMap(f) : f \in MapsOver(valuesAt, MaxEntries) }
    [] TypeKind(attrType) = "Object" ->
         LET names == DOMAIN AttributeTypes(attrType)
             NameOf(key) == CHOOSE name \in names : SnakeToCamel(name) = key
             valuesAt == [key \in { SnakeToCamel(name) : name \in names } |->
                            NativeValues(AttributeTypes(attrType)[NameOf(key)])]
         IN { GoMap(f) : f \in MapsOver(valuesAt, Cardinality(names)) }

\* Values that do not have the shape of the type they come with
Mismatched ==
  { << BoolType, GoString("x") >>, << Int64Type, GoString("x") >>,
    << StringType, GoInt(7) >>, << ListType(StringType), GoString("x") >>,
    << ListType(StringType), GoList(<< GoInt(7) >>) >>,
    << MapType(StringType), GoList(<< >>) >>, << NameAndVlan, GoBool(TRUE) >> }

\* Maps of maps: an outer entry under "labels" or under "a_b", holding a map
\* of strings with at most MaxEntries of the keys "a_b" and "A"
MapsOfMaps ==
  LET inner == [key \in { <<"a", "_", "b">>, <<"A">> } |-> {GoString("x")}]
      outer == [key \in { <<"l", "a", "b", "e", "l", "s">>, <<"a", "_", "b">> } |->
                  { GoMap(f) : f \in MapsOver(inner, MaxEntries) }]
  IN { << MapType(MapType(StringType)), GoMap(f) >> : f \in MapsOver(outer, MaxEntries) }

InputsOf(types) ==
  Mismatched \cup MapsOfMaps \cup
  UNION { { << attrType, d >> : d \in NativeValues(attrType) } :
                 attrType \in types }

\* The goroutines that convert values
Travs == 1 .. NumTravs

\* No traversal is running.
VisitIdle ==
  /\ visitCounter = 0
  /\ ignoreCaseVisitor = {}
  /\ mapWriters = {}
  /\ fatal = FALSE
  /\ tpc = [t \in Travs |-> "off"]
  /\ stack = [t \in Travs |-> << >>]
  /\ ret = [t \in Travs |-> << >>]
  /\ job = [t \in Travs |-> << >>]
  /\ issued = [t \in Travs |-> {}]

\* No model is being converted.
ModelIdle ==
  /\ model = << >>
  /\ response = << >>
  /\ body = << >>
  /\ modelOp = "off"
  /\ modelErr = FALSE
  /\ calls = 0

\* No name is being converted.
NameIdle ==
  /\ namePc = "off"
  /\ nameIn = << >>
  /\ camelName = << >>
  /\ snakeName = << >>

\* No value is being converted.
ConvIdle ==
  /\ convPc = "off"
  /\ attrTypeIf = << >>
  /\ data = << >>
  /\ attrValIf = << >>
  /\ anyVal = << >>

\* No conversion is running.
MarshalIdle == ConvIdle /\ ModelIdle /\ NameIdle /\ VisitIdle

\* A native value is converted with newValue(ctx, attrTypeIf, data, "").
NewValueCall ==
  /\ convPc = "input"
  /\ \E v \in newValue(attrTypeIf, data, FALSE) :
       /\ attrValIf' = v
       /\ convPc' = IF v = ConvError THEN "failed" ELSE "typed"
  /\ UNCHANGED << attrTypeIf, data, anyVal, modelVars, nameVars, visitVars >>
  /\ UNCHANGED storeVars

\* The value is converted back with fromValue(ctx, attrValIf, "").
FromValueCall ==
  /\ convPc = "typed"
  /\ \E d \in fromValue(attrValIf, FALSE) :
       /\ anyVal' = d
       /\ convPc' = IF d = ConvError THEN "failed" ELSE "back"
  /\ UNCHANGED << attrTypeIf, data, attrValIf, modelVars, nameVars, visitVars >>
  /\ UNCHANGED storeVars

(* ------------------------------------------------------------------ *)
(* tfutils: models                                                      *)
(* ------------------------------------------------------------------ *)

\* A field of a model struct: its tfsdk tag and the attr.Value it holds
FieldName(field) == field[1]
FieldValue(field) == field[2]

\* types.ObjectValue(attrTypes, attrs): the object, or the error when an
\* attribute is missing, is not one of the type, or has another type
ObjectValue(attrTypes, attrs) ==
  IF /\ DOMAIN attrs = DOMAIN attrTypes
     /\ \A name \in DOMAIN attrs : Type(attrs[name]) = attrTypes[name]
  THEN KnownValue(ObjectType(attrTypes), attrs)
  ELSE ConvError

\* A null that is always that of a String
newNullValueOfString(attrVal) == NullValue(StringType)

\* newNullValue: the null of the type of attrVal
newNullValue(attrVal) == NullValue(Type(attrVal))

\* ObjectValue.Attributes(): the attributes of a known object, none for a
\* null or unknown one
Attributes(objVal) == IF Skipped(objVal) THEN << >> ELSE Known(objVal)

\* fillObjectNull: a new object with every unknown or null attribute of
\* objVal set to the null of its type, objects among its attributes filled
\* in turn, or the error
RECURSIVE fillObjectNull(_)
fillObjectNull(objVal) ==
  LET attrs == [name \in DOMAIN Attributes(objVal) |->
                  LET atVal == Attributes(objVal)[name] IN
                  IF IsUnknown(atVal) \/ IsNull(atVal) THEN newNullValue(atVal)
                  ELSE IF TypeKind(Type(atVal)) = "Object" THEN fillObjectNull(atVal)
                  ELSE atVal]
  IN IF \E name \in DOMAIN attrs : attrs[name] = ConvError
     THEN ConvError
     ELSE ObjectValue(AttributeTypes(Type(objVal)), attrs)

\* FillMissingValues, one field: the value the field is set to, or the error
Filled(attrVal) ==
  IF IsUnknown(attrVal) THEN newNullValue(attrVal)
  ELSE IF TypeKind(Type(attrVal)) = "Object" THEN fillObjectNull(attrVal)
  ELSE attrVal

\* The least index
MinOf(S) == CHOOSE x \in S : \A y \in S : x <= y

\* The loop of AnyMapToModel and of FillMissingValues over the fields in
\* order, newVals[i] being what field i is to be set to or the error: every
\* field before the first error is set, and the error is returned.
SetFields(fields, newVals) ==
  LET failing == { i \in DOMAIN fields : newVals[i] = ConvError }
      stop == IF failing = {} THEN Len(fields) + 1 ELSE MinOf(failing)
  IN [model |-> [i \in DOMAIN fields |->
                   IF i < stop THEN << FieldName(fields[i]), newVals[i] >> ELSE fields[i]],
      err |-> failing # {}]

\* AnyMapToModel: resp[fieldName], nil for a key that is not there
RespAt(key) == IF key \in DOMAIN response THEN response[key] ELSE Nil

\* AnyMapToModel(ctx, resp, &model)
AnyMapToModel ==
  /\ modelOp # "off"
  /\ calls < MaxCalls
  /\ LET each == [i \in DOMAIN model |->
                    newValue(Type(FieldValue(model[i])),
                             RespAt(SnakeToCamel(FieldName(model[i]))), FALSE)]
     IN \E newVals \in Choices(each) :
          /\ model' = SetFields(model, newVals).model
          /\ modelErr' = SetFields(model, newVals).err
  /\ modelOp' = "AnyMapToModel"
  /\ calls' = calls + 1
  /\ UNCHANGED << response, body >>
  /\ UNCHANGED << convVars, nameVars, visitVars >>
  /\ UNCHANGED storeVars

\* FillMissingValues(ctx, &model)
FillMissingValues ==
  /\ modelOp # "off"
  /\ calls < MaxCalls
  /\ LET newVals == [i \in DOMAIN model |-> Filled(FieldValue(model[i]))]
     IN /\ model' = SetFields(model, newVals).model
        /\ modelErr' = SetFields(model, newVals).err
  /\ modelOp' = "FillMissingValues"
  /\ calls' = calls + 1
  /\ UNCHANGED << response, body >>
  /\ UNCHANGED << convVars, nameVars, visitVars >>
  /\ UNCHANGED storeVars

\* ModelToAnyMap: the fields that go into the body, by index
InBodyFields == { i \in DOMAIN model : ~Skipped(FieldValue(model[i])) }

\* ModelToAnyMap(ctx, &model): the body, or the error of fromValue
ModelToAnyMap ==
  /\ modelOp # "off"
  /\ calls < MaxCalls
  /\ LET FieldAt(key) ==
           CHOOSE i \in InBodyFields : SnakeToCamel(FieldName(model[i])) = key
         each == [key \in { SnakeToCamel(FieldName(model[i])) : i \in InBodyFields } |->
                    fromValue(FieldValue(model[FieldAt(key)]), FALSE)]
     IN \E d \in NativeOutcomes("map", each) :
          /\ body' = d
          /\ modelErr' = (d = ConvError)
  /\ modelOp' = "ModelToAnyMap"
  /\ calls' = calls + 1
  /\ UNCHANGED << model, response >>
  /\ UNCHANGED << convVars, nameVars, visitVars >>
  /\ UNCHANGED storeVars

\* The model structs drawn: the tfsdk tags and types of their fields in order
SpecOfVlan == ObjectType(<<"i", "n", "n", "e", "r">> :> VlanOnly)
ModelTypes ==
  { << << <<"n", "a", "m", "e">>, StringType >>,
       << <<"v", "l", "a", "n", "_", "i", "d">>, Int64Type >> >>,
    << << <<"n", "a", "m", "e">>, StringType >>,
       << <<"s", "p", "e", "c">>, VlanOnly >> >>,
    << << <<"t", "a", "g", "s">>, ListType(StringType) >>,
       << <<"e", "x", "t", "r", "a">>, DynamicType >> >>,
    << << <<"s", "p", "e", "c">>, SpecOfVlan >> >>,
    << << <<"n", "o", "t", "e", "s">>, MapType(StringType) >> >> }

\* The values drawn for a field of a type: its null, its unknown and known
\* values whose parts are drawn the same way; a known Dynamic holds a
\* String, known or unknown
RECURSIVE TypedValues(_)
TypedValues(attrType) ==
  {NullValue(attrType), UnknownValue(attrType)} \cup
  CASE TypeKind(attrType) = "Int64" -> {KnownValue(attrType, 7)}
    [] TypeKind(attrType) = "String" -> {KnownValue(attrType, "x")}
    [] TypeKind(attrType) = "Dynamic" ->
         { KnownValue(attrType, KnownValue(StringType, "x")),
           KnownValue(attrType, UnknownValue(StringType)) }
    [] TypeKind(attrType) \in {"List", "Set"} ->
         { KnownValue(attrType, elems) :
             elems \in SeqsUpTo(TypedValues(ElementType(attrType)), MaxElems) }
    [] TypeKind(attrType) = "Map" ->
         LET valuesAt == [key \in { <<"a", "_", "b">>, <<"A">> } |->
                            TypedValues(ElementType(attrType))]
         IN { KnownValue(attrType, f) : f \in MapsOver(valuesAt, MaxEntries) }
    [] TypeKind(attrType) = "Object" ->
         { KnownValue(attrType, f) :
             f \in Choices([name \in DOMAIN AttributeTypes(attrType) |->
                              TypedValues(AttributeTypes(attrType)[name])]) }

\* The native values drawn for a key of the response: nil, one value of the
\* shape of the type and one that is not
RespValues(attrType) ==
  {Nil} \cup
  CASE TypeKind(attrType) = "Int64" -> {GoInt(7), GoString("x")}
    [] TypeKind(attrType) = "String" -> {GoString("x"), GoInt(7)}
    [] TypeKind(attrType) = "Dynamic" -> {GoString("x")}
    [] TypeKind(attrType) \in {"List", "Set"} -> {GoList(<< GoString("x") >>), GoString("x")}
    [] TypeKind(attrType) = "Map" ->
         {GoMap(<<"a", "_", "b">> :> GoString("x")), GoList(<< >>)}
    [] TypeKind(attrType) = "Object" -> {GoMap(<< >>), GoBool(TRUE)}

\* The models of a struct: every choice of values for its fields
ModelsOf(modelType) ==
  { [i \in DOMAIN modelType |-> << modelType[i][1], f[i] >>] :
      f \in Choices([i \in DOMAIN modelType |-> TypedValues(modelType[i][2])]) }

\* The responses drawn for a struct: any of its camel-case keys, each with
\* one of the values drawn for the type of the field
ResponsesOf(modelType) ==
  LET TypeAt(key) ==
        (CHOOSE i \in DOMAIN modelType : SnakeToCamel(modelType[i][1]) = key)
      valuesAt == [key \in { SnakeToCamel(modelType[i][1]) : i \in DOMAIN modelType } |->
                     RespValues(modelType[TypeAt(key)][2])]
  IN MapsOver(valuesAt, Len(modelType))

(* ------------------------------------------------------------------ *)
(* tfutils: the traversals of maps and objects, step by step            *)
(* ------------------------------------------------------------------ *)

\* The visitId the callers of newValue and fromValue pass: ""
NoVisit == << >>

\* newVisitID(prefix) once atomic.AddInt64(&visitCounter, 1) returned n:
\* prefix + "-" + n
newVisitID(prefix, n) == << prefix, n >>

\* A call of newValue or of fromValue: the function and its arguments
NewValueOf(attrType, val) == << "newValue", attrType, val >>
FromValueOf(attrVal) == << "fromValue", attrVal >>
Callee(call) == call[1]
TypeOf(call) == IF Callee(call) = "newValue" THEN call[2] ELSE Type(call[2])

\* The elements of the map or object fromValue ranges over
ElementsOf(call) == IF Skipped(call[2]) THEN << >> ELSE Known(call[2])

\* Whether the call reaches the loop of the Map or of the Object case
IsRanged(call) ==
  /\ TypeKind(TypeOf(call)) \in {"Map", "Object"}
  /\ Callee(call) = "newValue" => GoKind(call[3]) = "map"

\* The keys the loop opens, reads and closes scopes for: the keys of
\* valuesMap, the names of the attribute types, or the keys of the elements
\* that are neither null nor unknown
Ranged(call) ==
  IF Callee(call) = "newValue"
  THEN IF TypeKind(TypeOf(call)) = "Map" THEN DOMAIN GoValue(call[3])
       ELSE DOMAIN AttributeTypes(TypeOf(call))
  ELSE { k \in DOMAIN ElementsOf(call) : ~Skipped(ElementsOf(call)[k]) }

\* The recursive call the loop body makes for key k
ChildOf(call, k) ==
  IF Callee(call) = "newValue"
  THEN IF TypeKind(TypeOf(call)) = "Map"
       THEN NewValueOf(ElementType(TypeOf(call)), GoValue(call[3])[k])
       ELSE NewValueOf(AttributeTypes(TypeOf(call))[k],
                       IF SnakeToCamel(k) \in DOMAIN GoValue(call[3])
                       THEN GoValue(call[3])[SnakeToCamel(k)] ELSE Nil)
  ELSE FromValueOf(ElementsOf(call)[k])

\* What a call that does not reach those loops returns
Converted(call, ignoreCase) ==
  IF Callee(call) = "newValue"
  THEN newValue(call[2], call[3], ignoreCase)
  ELSE fromValue(call[2], ignoreCase)

\* A loop body that keeps every key as it is
StoredAsGiven(call, ignoreCase, k) == k

\* The key the loop body stores the converted value under: the attribute
\* name in newValue's Object case; otherwise k while ignoreCaseVisitor[visitId]
\* and SnakeToCamel(k) when not
StoredAs(call, ignoreCase, k) ==
  IF Callee(call) = "newValue" /\ TypeKind(TypeOf(call)) = "Object" THEN k
  ELSE IF ignoreCase THEN k
  ELSE SnakeToCamel(k)

\* What the call returns after its loop, out being newValMap or value
Built(call, out) ==
  IF Callee(call) = "fromValue" THEN GoMap(out)
  ELSE IF TypeKind(TypeOf(call)) = "Map" THEN KnownValue(TypeOf(call), out)
  ELSE ObjectValue(AttributeTypes(TypeOf(call)), out)

\* The locals of a call that is in its loop: the keys not yet visited, the
\* key of this iteration, visitId and oldVisitId, what the recursive call
\* returned and the map built so far
Frame(call, visitId) ==
  [call |-> call, todo |-> Ranged(call), key |-> << >>, visitId |-> visitId,
   oldVisitId |-> visitId, res |-> << >>, out |-> << >>]

Top(t) == stack[t][Len(stack[t])]
WithTop(t, f) == [stack EXCEPT ![t] = [i \in DOMAIN @ |-> IF i = Len(@) THEN f ELSE @[i]]]

\* The goroutines other than t that are inside an assignment to or a delete
\* from ignoreCaseVisitor
OtherWriters(t) == mapWriters \ {t}

\* ignoreCaseVisitor is a plain map and nothing orders the goroutines that
\* use it: an access by t while another goroutine writes is a data race
RacesWith(t) == OtherWriters(t) # {}

\* ignoreCaseVisitor[visitId] read by goroutine t: the entry, or under a data
\* race either answer
Lookup(t, visitId) ==
  IF RacesWith(t) THEN BOOLEAN ELSE {visitId \in ignoreCaseVisitor}

\* The map after goroutine t's write that makes it after: under a data race
\* the write can be lost
Written(t, after) ==
  IF RacesWith(t) THEN {after, ignoreCaseVisitor} ELSE {after}

\* The Go runtime finds the map being written by another goroutine and ends
\* the process ("fatal error: concurrent map writes", "concurrent map read and
\* map write").
Throws(t) ==
  /\ RacesWith(t)
  /\ fatal' = TRUE
  /\ UNCHANGED << visitCounter, ignoreCaseVisitor, mapWriters, tpc, stack, ret,
                  job, issued >>

\* The call on top of goroutine t's stack returns value to the loop body that
\* made it, or to the caller of the traversal.
Returns(t, value) ==
  IF Len(stack[t]) = 1
  THEN /\ stack' = [stack EXCEPT ![t] = << >>]
       /\ ret' = [ret EXCEPT ![t] = value]
       /\ tpc' = [tpc EXCEPT ![t] = "done"]
  ELSE /\ stack' =
            [stack EXCEPT ![t] =
               [i \in 1 .. (Len(@) - 1) |->
                  IF i = Len(@) - 1 THEN [@[i] EXCEPT !.res = value] ELSE @[i]]]
       /\ tpc' = [tpc EXCEPT ![t] = "store"]
       /\ UNCHANGED ret

\* The head of the loop: the range is over and the call returns what it
\* built, or the next key k comes (in the order Go ranges over the map), and
\* "if !ignoreCaseVisitor[visitId] && ignoreCaseNames[k]" takes a new visitId
\* and begins to set ignoreCaseVisitor[visitId].
VisitNext(t) ==
  /\ ~fatal
  /\ tpc[t] = "loop"
  /\ LET f == Top(t) IN
     IF f.todo = {}
     THEN /\ Returns(t, Built(f.call, f.out))
          /\ UNCHANGED << visitCounter, ignoreCaseVisitor, mapWriters, fatal, job,
                          issued >>
     ELSE \/ Throws(t)
          \/ \E k \in f.todo : \E ignoreCase \in Lookup(t, f.visitId) :
               IF ~ignoreCase /\ k \in ignoreCaseNames
               THEN /\ visitCounter' = visitCounter + 1
                    /\ stack' = WithTop(t, [f EXCEPT !.key = k,
                                   !.visitId = newVisitID(k, visitCounter + 1)])
                    /\ issued' = [issued EXCEPT ![t] =
                                    @ \cup {newVisitID(k, visitCounter + 1)}]
                    /\ mapWriters' = mapWriters \cup {t}
                    /\ tpc' = [tpc EXCEPT ![t] = "insert"]
                    /\ UNCHANGED << ignoreCaseVisitor, fatal, ret, job >>
               ELSE /\ stack' = WithTop(t, [f EXCEPT !.key = k])
                    /\ tpc' = [tpc EXCEPT ![t] = "call"]
                    /\ UNCHANGED << visitCounter, ignoreCaseVisitor, mapWriters,
                                    fatal, ret, job, issued >>
  /\ UNCHANGED << convVars, modelVars, nameVars >>
  /\ UNCHANGED storeVars

\* "ignoreCaseVisitor[visitId] = true" is done.
VisitInsert(t) ==
  /\ ~fatal
  /\ tpc[t] = "insert"
  /\ \/ Throws(t)
     \/ /\ ignoreCaseVisitor' \in Written(t, ignoreCaseVisitor \cup {Top(t).visitId})
        /\ mapWriters' = mapWriters \ {t}
        /\ tpc' = [tpc EXCEPT ![t] = "call"]
        /\ UNCHANGED << visitCounter, fatal, stack, ret, job, issued >>
  /\ UNCHANGED << convVars, modelVars, nameVars >>
  /\ UNCHANGED storeVars

\* The recursive call for the key of this iteration: it enters its own loop,
\* or it returns a value, or it returns an error and every call of the
\* traversal returns it ("return nil, err").
VisitCall(t) ==
  /\ ~fatal
  /\ tpc[t] = "call"
  /\ LET f == Top(t)
         child == ChildOf(f.call, f.key)
     IN IF IsRanged(child)
        THEN /\ stack' = [stack EXCEPT ![t] = Append(@, Frame(child, f.visitId))]
             /\ tpc' = [tpc EXCEPT ![t] = "loop"]
             /\ UNCHANGED ret
        ELSE \E r \in Converted(child, f.visitId \in ignoreCaseVisitor) :
               IF r = ConvError
               THEN /\ stack' = [stack EXCEPT ![t] = << >>]
                    /\ ret' = [ret EXCEPT ![t] = ConvError]
                    /\ tpc' = [tpc EXCEPT ![t] = "failed"]
               ELSE /\ stack' = WithTop(t, [f EXCEPT !.res = r])
                    /\ tpc' = [tpc EXCEPT ![t] = "store"]
                    /\ UNCHANGED ret
  /\ UNCHANGED << visitCounter, ignoreCaseVisitor, mapWriters, fatal, job, issued >>
  /\ UNCHANGED << convVars, modelVars, nameVars >>
  /\ UNCHANGED storeVars

\* After the recursive call: the value is stored under k or SnakeToCamel(k)
\* by ignoreCaseVisitor[visitId], and "if visitId != oldVisitId" begins to
\* delete the visitId.
VisitStore(t) ==
  /\ ~fatal
  /\ tpc[t] = "store"
  /\ \/ Throws(t)
     \/ \E ignoreCase \in Lookup(t, Top(t).visitId) :
          LET f == Top(t)
              g == [f EXCEPT !.out = (StoredAs(f.call, ignoreCase, f.key) :> f.res) @@ @,
                             !.todo = @ \ {f.key},
                             !.res = << >>]
          IN /\ stack' = WithTop(t, g)
             /\ IF f.visitId # f.oldVisitId
                THEN /\ mapWriters' = mapWriters \cup {t}
                     /\ tpc' = [tpc EXCEPT ![t] = "delete"]
                ELSE /\ tpc' = [tpc EXCEPT ![t] = "loop"]
                     /\ UNCHANGED mapWriters
             /\ UNCHANGED << visitCounter, ignoreCaseVisitor, fatal, ret, job, issued >>
  /\ UNCHANGED << convVars, modelVars, nameVars >>
  /\ UNCHANGED storeVars

\* "delete(ignoreCaseVisitor, visitId)" is done, and "visitId = oldVisitId".
VisitDelete(t) ==
  /\ ~fatal
  /\ tpc[t] = "delete"
  /\ \/ Throws(t)
     \/ /\ ignoreCaseVisitor' \in Written(t, ignoreCaseVisitor \ {Top(t).visitId})
        /\ mapWriters' = mapWriters \ {t}
        /\ stack' = WithTop(t, [Top(t) EXCEPT !.visitId = Top(t).oldVisitId])
        /\ tpc' = [tpc EXCEPT ![t] = "loop"]
        /\ UNCHANGED << visitCounter, fatal, ret, job, issued >>
  /\ UNCHANGED << convVars, modelVars, nameVars >>
  /\ UNCHANGED storeVars

\* A call to convert, mistyped below a case-preserving key and below another
MistypedBelow(key) ==
  NewValueOf(MapType(MapType(StringType)),
             GoMap(key :> GoMap(<<"a", "_", "b">> :> GoInt(7))))

\* The calls of newValue drawn: maps of maps, with and without the key
\* "labels", mistyped ones, objects with an attribute "labels", and maps
\* with a camel-case key
NewValueCalls ==
  { NewValueOf(input[1], input[2]) : input \in MapsOfMaps }
  \cup { MistypedBelow(<<"l", "a", "b", "e", "l", "s">>),
         MistypedBelow(<<"a", "_", "b">>) }
  \cup UNION { { NewValueOf(attrType, d) : d \in NativeValues(attrType) \ {Nil} } :
                 attrType \in {LabelsAndName, LabelsObject} }
  \cup { NewValueOf(MapType(StringType), GoMap(f)) :
           f \in MapsOver([key \in { <<"a", "B">>, <<"a", "_", "b">> } |->
                             {GoString("x")}], MaxEntries) }

\* The calls of fromValue drawn: on every value the calls of newValue
\* return, and on maps and objects with null and unknown parts
FromValueCalls ==
  { FromValueOf(v) :
      v \in UNION { Converted(call, FALSE) : call \in NewValueCalls } \ {ConvError} }
  \cup { FromValueOf(v) :
           v \in TypedValues(MapType(StringType)) \cup TypedValues(LabelsAndName) }

\* The calls drawn for goroutines that run together: a map with a
\* case-preserving key and another key, the value made of it, and a mistyped one
TogetherCalls ==
  LET m == NewValueOf(MapType(MapType(StringType)),
             GoMap((<<"l", "a", "b", "e", "l", "s">> :>
                       GoMap(<<"a", "_", "b">> :> GoString("x")))
                   @@ (<<"a", "_", "b">> :> GoMap(<<"a", "_", "b">> :> GoString("x")))))
  IN { m, MistypedBelow(<<"l", "a", "b", "e", "l", "s">>) }
     \cup { FromValueOf(v) : v \in Converted(m, FALSE) }

(* ------------------------------------------------------------------ *)
(* tfutils: the name conversions as steps                               *)
(* ------------------------------------------------------------------ *)

\* The segments names are made of: empty, one letter, plain, with a digit in
\* front, acronyms (spelled ID, IPv4, L2CP), and one with an upper-case letter
Segments ==
  { << >>, <<"a">>, <<"a", "b">>, <<"1", "b">>, <<"i", "d">>,
    <<"i", "p", "v", "4">>, <<"l", "2", "c", "p">>, <<"A", "b">> }

\* The segments joined with "_"
RECURSIVE JoinSegments(_)
JoinSegments(segs) ==
  IF segs = << >> THEN << >>
  ELSE IF Len(segs) = 1 THEN Head(segs)
  ELSE Head(segs) \o << "_" >> \o JoinSegments(Tail(segs))

\* The names drawn: at most n segments, and the names of the override table
NamesUpTo(n) ==
  { JoinSegments(segs) : segs \in SeqsUpTo(Segments, n) }
  \cup DOMAIN snakeToCamelNames

\* SnakeToCamel(nameIn)
SnakeToCamelCall ==
  /\ namePc = "input"
  /\ camelName' = SnakeToCamel(nameIn)
  /\ namePc' = "camel"
  /\ UNCHANGED << nameIn, snakeName >>
  /\ UNCHANGED << convVars, modelVars, visitVars >>
  /\ UNCHANGED storeVars

\* CamelToSnake(camelName)
CamelToSnakeCall ==
  /\ namePc = "camel"
  /\ snakeName' = CamelToSnake(camelName)
  /\ namePc' = "snake"
  /\ UNCHANGED << nameIn, camelName >>
  /\ UNCHANGED << convVars, modelVars, visitVars >>
  /\ UNCHANGED storeVars

(* ------------------------------------------------------------------ *)
(* Specifications                                                       *)
(* ------------------------------------------------------------------ *)

Init == InitStore /\ MarshalIdle

Next ==
  \/ NewEdaApiClient
  \/ DoQueryReturn
  \/ getClientSecretReturn
  \/ \E p \in Callers : ExecuteCall(p)
  \/ \E p \in Callers : DoExecuteReturn(p)
  \/ \E p \in Procs : getAccessToken(p)
  \/ \E p \in Procs : DoLoginReturn(p)
  \/ \E p \in Procs : Sleep(p)
  \/ Tick

Spec == Init /\ [][Next]_vars

\* What the scheduling of the code guarantees to a goroutine inside or in
\* front of getAccessToken: the login request in flight is answered (the
\* rest client is built with WithTimeout(cfg.RestTimeout), so DoLogin returns
\* with an answer or a transport error), time.Sleep returns, and Lock()
\* returns to a goroutine that finds the mutex free again and again
\* (sync.Mutex hands the mutex to a waiter that has been starved).
LockFair(p) ==
  /\ WF_vars(DoLoginReturn(p))
  /\ WF_vars(Sleep(p))
  /\ SF_vars(getAccessToken(p))

\* The store under that scheduling
SpecFair == Init /\ [][Next]_vars /\ \A p \in Procs : LockFair(p)

\* An identity provider that accepts the username and password of the
\* credential and rejects every refresh token: the request body decides the
\* answer, an error status for the refresh grant, a token for the password
\* grant.
RejectingRefresh(p) ==
  IF local[p].body.grant_type = KEY_REFRESH_GRANT
  THEN { r \in ResponsesFor(p) : r.status = "error" }
  ELSE { r \in ResponsesFor(p) : r.status = "ok" /\ r.AccessToken # "" }

DoLoginRejecting(p) == \E resp \in RejectingRefresh(p) : DoLogin(p, resp)

NextRejecting ==
  \/ NewEdaApiClient
  \/ DoQueryReturn
  \/ getClientSecretReturn
  \/ \E p \in Callers : ExecuteCall(p)
  \/ \E p \in Callers : DoExecuteReturn(p)
  \/ \E p \in Procs : getAccessToken(p)
  \/ \E p \in Procs : DoLoginRejecting(p)
  \/ \E p \in Procs : Sleep(p)
  \/ Tick

\* The goroutines keep calling Execute, DoExecute returns (the same rest
\* client with its timeout), and inside getAccessToken the scheduling is
\* that of LockFair with the answers of this identity provider.
CallsFair(p) ==
  /\ WF_vars(ExecuteCall(p))
  /\ WF_vars(DoExecuteReturn(p))
  /\ WF_vars(DoLoginRejecting(p))
  /\ WF_vars(Sleep(p))
  /\ SF_vars(getAccessToken(p))

\* The store in front of that identity provider, with callers that go on
\* calling
SpecRejecting ==
  Init /\ [][NextRejecting]_vars /\ \A p \in Callers : CallsFair(p)

\* The conversions on their own: a type and a native value are drawn, the
\* value is converted and converted back.
InitConv ==
  /\ InitStore
  /\ convPc = "input"
  /\ \E input \in InputsOf(AttrTypes) : attrTypeIf = input[1] /\ data = input[2]
  /\ attrValIf = << >>
  /\ anyVal = << >>
  /\ ModelIdle
  /\ NameIdle
  /\ VisitIdle

NextConv ==
  \/ NewValueCall
  \/ FromValueCall

SpecConv == InitConv /\ [][NextConv]_vars

\* The functions on models: a model and a response are drawn, and
\* AnyMapToModel, FillMissingValues and ModelToAnyMap are called on them.
InitModel ==
  /\ InitStore
  /\ ConvIdle
  /\ NameIdle
  /\ VisitIdle
  /\ \E modelType \in ModelTypes :
       /\ model \in ModelsOf(modelType)
       /\ response \in ResponsesOf(modelType)
  /\ body = << >>
  /\ modelOp = "new"
  /\ modelErr = FALSE
  /\ calls = 0

NextModel ==
  \/ AnyMapToModel
  \/ FillMissingValues
  \/ ModelToAnyMap

SpecModel == InitModel /\ [][NextModel]_vars

\* The name conversions on their own: a name is drawn, converted to camel
\* case and back.
InitNames ==
  /\ InitStore
  /\ ConvIdle
  /\ ModelIdle
  /\ VisitIdle
  /\ namePc = "input"
  /\ nameIn \in NamesUpTo(MaxSegs)
  /\ camelName = << >>
  /\ snakeName = << >>

NextNames ==
  \/ SnakeToCamelCall
  \/ CamelToSnakeCall

SpecNames == InitNames /\ [][NextNames]_vars

\* The goroutines in running are at the head of the loop of their calls,
\* nothing has been visited before.
StartedBy(running, callOf) ==
  /\ visitCounter = 0
  /\ ignoreCaseVisitor = {}
  /\ mapWriters = {}
  /\ fatal = FALSE
  /\ job = [t \in Travs |-> IF t \in running THEN callOf[t] ELSE << >>]
  /\ stack = [t \in Travs |->
                IF t \in running THEN << Frame(callOf[t], NoVisit) >> ELSE << >>]
  /\ tpc = [t \in Travs |-> IF t \in running THEN "loop" ELSE "off"]
  /\ ret = [t \in Travs |-> << >>]
  /\ issued = [t \in Travs |-> {}]

NextVisit ==
  \/ \E t \in Travs : VisitNext(t)
  \/ \E t \in Travs : VisitInsert(t)
  \/ \E t \in Travs : VisitCall(t)
  \/ \E t \in Travs : VisitStore(t)
  \/ \E t \in Travs : VisitDelete(t)

\* One traversal on its own: a call of newValue or of fromValue with
\* visitId "" is drawn and made by one goroutine.
InitTraversal ==
  /\ InitStore
  /\ ConvIdle
  /\ ModelIdle
  /\ NameIdle
  /\ \E call \in NewValueCalls \cup FromValueCalls :
       StartedBy({1}, [t \in Travs |-> call])

SpecTraversal == InitTraversal /\ [][NextVisit]_vars

\* Traversals together: every goroutine makes a call of its own, as the
\* requests served at the same time do.
InitTraversals ==
  /\ InitStore
  /\ ConvIdle
  /\ ModelIdle
  /\ NameIdle
  /\ \E callOf \in [Travs -> TogetherCalls] : StartedBy(Travs, callOf)

SpecTraversals == InitTraversals /\ [][NextVisit]_vars

(* ------------------------------------------------------------------ *)
(* Claims about the credential store                                    *)
(* ------------------------------------------------------------------ *)

\* Goroutine p takes the step of getAccessToken that checks the grant.
ChecksGrant(p) == pc[p] = "call_token" /\ pc'[p] # "call_token"

\* Goroutine p's getAccessToken hands the cached token of grant g back
\* without a login request: the token reaches the caller, the grant and the
\* lock are as before.
ServedFromCache(p, g) ==
  /\ pc'[p] = (IF p = Ctor THEN "query_wait" ELSE "api_wait")
  /\ local'[p].token = grant[g].AccessToken
  /\ loginsSent'[p] = 0
  /\ tokenLock' = tokenLock
  /\ grant' = grant

\* Goroutine p's getAccessToken goes on to a login request.
StartsLogin(p) ==
  /\ pc'[p] = "login_wait"
  /\ loginsSent'[p] = 1
  /\ tokenLock' = p

\* C1, as stated: once a login has succeeded for a pair (its timestamp is
\* set), a getAccessToken call made while elapsed < ExpiresInSecs sends no
\* login request and returns the stored access token.
C1_AsStated ==
  [][\A p \in Procs :
       (/\ ChecksGrant(p)
        /\ grant[GrantOf(p)].timestamp = "set"
        /\ elapsed[GrantOf(p)] < grant[GrantOf(p)].ExpiresInSecs)
       => ServedFromCache(p, GrantOf(p))]_vars

\* C1, amended: once a login has succeeded for a pair and stored a non-empty
\* access token, a getAccessToken call made while elapsed < ExpiresInSecs
\* sends no login request and returns that token.
C1_CachedTokenReused ==
  [][\A p \in Procs :
       (/\ ChecksGrant(p)
        /\ grant[GrantOf(p)].timestamp = "set"
        /\ grant[GrantOf(p)].AccessToken # ""
        /\ elapsed[GrantOf(p)] < grant[GrantOf(p)].ExpiresInSecs)
       => ServedFromCache(p, GrantOf(p))]_vars

\* Two Execute calls hold the same token of a grant that is still within
\* its lifetime.
C1_Witness ==
  \E p, q \in Callers :
    /\ p # q
    /\ pc[p] = "api_wait" /\ pc[q] = "api_wait"
    /\ local[p].token = grant["edaGrant"].AccessToken
    /\ local[q].token = grant["edaGrant"].AccessToken
    /\ grant["edaGrant"].timestamp = "set"
    /\ elapsed["edaGrant"] < grant["edaGrant"].ExpiresInSecs

\* What the caller of getAccessToken holds when it returned err and no token.
ReturnedError(p, err) ==
  IF p = Ctor
  THEN ctorErr' = err /\ client' = "failed" /\ pc'[p] = "ctor_failed"
  ELSE execErr'[p] = err /\ pc'[p] = "done" /\ apiSent'[p] = 0 /\ local'[p].token = ""

\* A login request of goroutine p is in flight: the steps of DoLogin start
\* here.
InFlight(p) == pc[p] = "login_wait"

\* C2: when every login attempt of a getAccessToken call fails (transport
\* error or error status), the call sends exactly 5 login requests: a failed
\* answer to one of the first 4 is followed by the next request, a failed
\* answer to the 5th ends the call with an error that reports 5 attempts and
\* the last failure, and no token.
C2_FiveAttemptsThenError ==
  /\ [](\A p \in Procs :
          /\ loginsSent[p] <= 5
          /\ (pc[p] \in {"login_wait", "sleep"} => loginsSent[p] = local[p].attempt + 1)
          /\ (pc[p] = "sleep" => loginsSent[p] < 5))
  /\ [][\A p \in Procs : InFlight(p) => \A resp \in ResponsesFor(p) :
          (resp.status # "ok" /\ DoLogin(p, resp)) =>
             IF loginsSent[p] < 5
             THEN pc'[p] = "sleep" /\ tokenLock' = p
             ELSE /\ loginsSent[p] = 5
                  /\ ReturnedError(p, [kind |-> "login_failed", attempts |-> 5,
                                       last |-> resp.status])]_vars
  /\ [][\A p \in Procs :
          pc[p] = "sleep" /\ pc'[p] # "sleep" =>
             pc'[p] = "login_wait" /\ loginsSent'[p] = loginsSent[p] + 1]_vars

\* An Execute call has returned "login failed after 5 attempts".
C2_Witness ==
  \E p \in Callers :
    /\ pc[p] = "done"
    /\ execErr[p].kind = "login_failed"
    /\ execErr[p].attempts = 5
    /\ apiSent[p] = 0

\* Goroutine p is inside the locked part of getAccessToken: a login request
\* in flight, or a backoff sleep. (The validity check is one step with taking
\* the lock.)
InBody(p) == pc[p] \in {"login_wait", "sleep"}

\* C3: at most one goroutine is inside the body of getAccessToken, it holds
\* the lock, and at most one login request is in flight.
C3_MutualExclusion ==
  /\ \A p, q \in Procs : (InBody(p) /\ InBody(q)) => p = q
  /\ \A p \in Procs : InBody(p) => tokenLock = p
  /\ Cardinality({p \in Procs : pc[p] = "login_wait"}) <= 1

\* One goroutine sleeps in backoff holding the lock while another one waits
\* for the lock.
C3_Witness ==
  \E p, q \in Callers : p # q /\ pc[p] = "sleep" /\ pc[q] = "call_token"

\* C4, as stated: with the timestamp set and elapsed >= ExpiresInSecs
\* (equality and ExpiresInSecs = 0 included) getAccessToken attempts a login
\* instead of returning the cached token.
C4_AsStated ==
  [][\A p \in Procs :
       (/\ ChecksGrant(p)
        /\ grant[GrantOf(p)].timestamp = "set"
        /\ elapsed[GrantOf(p)] >= grant[GrantOf(p)].ExpiresInSecs)
       => StartsLogin(p)]_vars

\* C4, amended: with the timestamp set, ExpiresInSecs not 0 and
\* elapsed > ExpiresInSecs, getAccessToken attempts a login instead of
\* returning the cached token; with elapsed = ExpiresInSecs, or with
\* ExpiresInSecs = 0, a non-empty cached token is returned without a login.
C4_ExpiredMeansStrictlyOlder ==
  [][\A p \in Procs :
       LET grnt == grant[GrantOf(p)] IN
       (ChecksGrant(p) /\ grnt.timestamp = "set") =>
          /\ (grnt.ExpiresInSecs # 0 /\ elapsed[GrantOf(p)] > grnt.ExpiresInSecs)
                => StartsLogin(p)
          /\ (/\ grnt.AccessToken # ""
              /\ (grnt.ExpiresInSecs = 0 \/ elapsed[GrantOf(p)] = grnt.ExpiresInSecs))
                => ServedFromCache(p, GrantOf(p))]_vars

\* A login with the refresh token is in flight: getAccessToken found the
\* grant expired.
C4_Witness ==
  \E p \in Callers :
    /\ pc[p] = "login_wait"
    /\ local[p].body.grant_type = KEY_REFRESH_GRANT
    /\ grant["edaGrant"].timestamp = "set"
    /\ grant["edaGrant"].ExpiresInSecs # 0

\* getClientSecret returns from the decoded listing.
ReadsListing == pc[Ctor] = "query_done" /\ pc'[Ctor] # "query_done"

\* NewEdaApiClient returns the error of kind k: no client, no secret stored.
ConstructionFails(k) ==
  /\ ctorErr' = Error(k)
  /\ client' = "failed"
  /\ clientSecret' = ""
  /\ pc'[Ctor] = "ctor_failed"

\* C5: getClientSecret returns "client not found" when the listing is empty
\* and "client secret not found" when the match has no "secret" field; in
\* both cases no secret is returned or stored in edaCred.clientSecret.
C5_SecretErrors ==
  [][ReadsListing =>
       /\ Len(result) = 0 => ConstructionFails("client_not_found")
       /\ (Len(result) > 0 /\ ~result[1].has)
             => ConstructionFails("client_secret_not_found")]_vars

\* NewEdaApiClient has failed with "client secret not found".
C5_Witness ==
  /\ pc[Ctor] = "ctor_failed"
  /\ ctorErr = Error("client_secret_not_found")
  /\ client = "failed"
  /\ clientSecret = ""

\* C6, as stated: getClientSecret returns a secret only when the listing
\* holds exactly one match; with any other number of matches it fails.
C6_AsStated ==
  [][(ReadsListing /\ client' = "ready") => Len(result) = 1]_vars

\* C6, amended: getClientSecret returns a secret only when the listing holds
\* at least one match, and the secret is the one of the first match; with an
\* empty listing it fails.
C6_FirstMatchDecides ==
  [][ReadsListing =>
       /\ client' = "ready" =>
            /\ Len(result) >= 1
            /\ result[1].has /\ result[1].isString
            /\ clientSecret' = result[1].secret
       /\ Len(result) = 0 => client' = "failed"]_vars

\* NewEdaApiClient has returned a client whose secret came from the listing.
C6_Witness ==
  /\ pc[Ctor] = "ctor_done"
  /\ client = "ready"
  /\ cfg.EdaClientSecret = ""
  /\ clientSecret \in Secrets

\* C7: no response drives the process into a panic.
C7_NeverPanics == ~panicked

\* C8: an Execute call sends at most one API request, and sends it in the
\* step in which getAccessToken returned a token for the eda pair to this
\* call; when getAccessToken fails, the call ends with that error and has
\* sent no API request.
C8_OneRequestAfterToken ==
  /\ [](\A p \in Callers :
          /\ apiSent[p] <= 1
          /\ (pc[p] \in {"call_token", "login_wait", "sleep"} => apiSent[p] = 0)
          /\ (pc[p] = "api_wait" => apiSent[p] = 1 /\ local[p].token # "")
          /\ (pc[p] = "done" /\ execErr[p].kind \in {"login_failed", "empty_token"}
                => apiSent[p] = 0))
  /\ [][\A p \in Callers :
          /\ apiSent'[p] > apiSent[p] =>
               /\ pc[p] \in {"call_token", "login_wait"}
               /\ pc'[p] = "api_wait"
               /\ local'[p].token = grant'["edaGrant"].AccessToken
               /\ local'[p].token # ""
          /\ InFlight(p) => \A resp \in LoginResponses :
               (DoLogin(p, resp) /\ pc'[p] = "done") =>
                  /\ apiSent'[p] = 0
                  /\ execErr'[p] = (IF resp.status = "ok" THEN Error("empty_token")
                                    ELSE LoginFailed(resp))]_vars

\* One Execute call has sent its API request with a token while another has
\* ended with "access token is empty" and without an API request.
C8_Witness ==
  \E p, q \in Callers :
    /\ pc[p] = "api_wait" /\ apiSent[p] = 1 /\ local[p].token # ""
    /\ pc[q] = "done" /\ execErr[q] = Error("empty_token") /\ apiSent[q] = 0

\* C9: with EdaClientSecret configured, NewEdaApiClient sends no request and
\* the keycloak grant stays the zero grant for ever; and once the client is
\* constructed no step changes the keycloak grant, and every login request of
\* an Execute call carries the eda credentials.
C9_KeycloakOnlyInConstruction ==
  /\ [](cfg.EdaClientSecret # "" =>
          /\ grant["keyCloakGrant"] = ZeroGrant
          /\ pc[Ctor] \in {"new", "ctor_done"}
          /\ loginsSent[Ctor] = 0
          /\ tokenLock # Ctor)
  /\ [](\A p \in Callers :
          pc[p] = "login_wait" =>
             /\ local[p].body.client_id = cfg.EdaClientID
             /\ local[p].body.client_secret = clientSecret)
  /\ [][client = "ready" =>
          grant'["keyCloakGrant"] = grant["keyCloakGrant"]]_vars

\* A client built with a configured secret has served an Execute call: the
\* eda grant is authenticated, the keycloak grant is not.
C9_Witness ==
  /\ cfg.EdaClientSecret # ""
  /\ client = "ready"
  /\ grant["keyCloakGrant"] = ZeroGrant
  /\ grant["edaGrant"].timestamp = "set"
  /\ \E p \in Callers : pc[p] = "done" /\ execErr[p] = NoError

(* ------------------------------------------------------------------ *)
(* Claims about the conversions                                         *)
(* ------------------------------------------------------------------ *)

\* A key without its letter case and its separators: what is left of a name
\* when the case conventions the converter moves between are ignored.
IsLetterOrDigit(c) == c \notin {"_", "-"}
FoldKey(key) == ToLowerString(SelectSeq(key, IsLetterOrDigit))

\* d is a native value of the shape of attrType: nil, or the scalar of the
\* type (for Int64 a whole number), or a list or map of such values; the
\* keys of an object are the camel-case names of its attributes.
RECURSIVE Matches(_, _)
Matches(attrType, d) ==
  \/ GoKind(d) = "nil"
  \/ CASE TypeKind(attrType) = "Bool" -> GoKind(d) = "bool"
       [] TypeKind(attrType) = "Int64" ->
            \/ GoKind(d) = "int"
            \/ GoKind(d) = "float" /\ GoValue(d) % 10 = 0
       [] TypeKind(attrType) = "String" -> GoKind(d) = "string"
       [] TypeKind(attrType) \in {"List", "Set"} ->
            /\ GoKind(d) = "list"
            /\ \A i \in DOMAIN GoValue(d) :
                 Matches(ElementType(attrType), GoValue(d)[i])
       [] TypeKind(attrType) = "Map" ->
            /\ GoKind(d) = "map"
            /\ \A key \in DOMAIN GoValue(d) :
                 Matches(ElementType(attrType), GoValue(d)[key])
       [] TypeKind(attrType) = "Object" ->
            /\ GoKind(d) = "map"
            /\ \A key \in DOMAIN GoValue(d) :
                 \E name \in DOMAIN AttributeTypes(attrType) :
                   /\ SnakeToCamel(name) = key
                   /\ Matches(AttributeTypes(attrType)[name], GoValue(d)[key])

\* d holds no nil: it is not nil, and no element or entry in it is.
RECURSIVE NoNil(_)
NoNil(d) ==
  /\ GoKind(d) # "nil"
  /\ GoKind(d) \in {"list", "map"} => \A x \in DOMAIN GoValue(d) : NoNil(GoValue(d)[x])

\* No two keys of one map in d differ only in letter case or separators.
RECURSIVE DistinctKeys(_)
DistinctKeys(d) ==
  /\ GoKind(d) = "map" =>
       \A x, y \in DOMAIN GoValue(d) : FoldKey(x) = FoldKey(y) => x = y
  /\ GoKind(d) \in {"list", "map"} =>
       \A x \in DOMAIN GoValue(d) : DistinctKeys(GoValue(d)[x])

\* The number a native int or float64 stands for, in tenths
Tenths(d) == IF GoKind(d) = "int" THEN 10 * GoValue(d) ELSE GoValue(d)

\* a and b are equal up to the casing of map keys: the same nesting, lists of
\* the same length with equal elements in order, maps with the same number of
\* entries whose keys pair up ignoring case with equal values, equal scalars.
RECURSIVE EqualUpToKeyCase(_, _)
EqualUpToKeyCase(a, b) ==
  CASE GoKind(a) = "list" ->
         /\ GoKind(b) = "list"
         /\ Len(GoValue(a)) = Len(GoValue(b))
         /\ \A i \in DOMAIN GoValue(a) : EqualUpToKeyCase(GoValue(a)[i], GoValue(b)[i])
    [] GoKind(a) = "map" ->
         /\ GoKind(b) = "map"
         /\ Cardinality(DOMAIN GoValue(a)) = Cardinality(DOMAIN GoValue(b))
         /\ \A x \in DOMAIN GoValue(a) : \E y \in DOMAIN GoValue(b) :
              /\ FoldKey(x) = FoldKey(y)
              /\ EqualUpToKeyCase(GoValue(a)[x], GoValue(b)[y])
    [] GoKind(a) \in {"int", "float"} ->
         GoKind(b) \in {"int", "float"} /\ Tenths(a) = Tenths(b)
    [] OTHER -> a = b

\* The conversion of data and back has ended, with a value or with an error.
RoundTripEnded == convPc \in {"back", "failed"}

LeavesBody(p) == InBody(p) /\ pc'[p] \notin {"login_wait", "sleep"}

\* C18: on every exit path of getAccessToken (cached token returned, login
\* succeeded, login failed after all attempts, empty token after login) the
\* lock is released: it is held only by a goroutine inside getAccessToken,
\* and it is free after every return.
C18_LockReleasedOnEveryExit ==
  /\ [](\A p \in Procs : tokenLock = p => InBody(p))
  /\ [][\A p \in Procs : LeavesBody(p) => tokenLock' = NoHolder]_vars
  /\ [][\A p \in Procs :
          (ChecksGrant(p) /\ pc'[p] # "login_wait") => tokenLock' = NoHolder]_vars

\* After an Execute call whose login failed on every attempt, another
\* goroutine has taken the lock and has a login request in flight.
C18_Witness ==
  \E p, q \in Callers :
    /\ p # q
    /\ pc[p] = "done"
    /\ execErr[p].kind = "login_failed"
    /\ pc[q] = "login_wait"
    /\ tokenLock = q

\* The body of goroutine p's login requests after this step is a refresh
\* grant with the refresh token stored in grant g, and client_id and
\* client_secret of p's credentials.
SendsRefreshGrant(p, g) ==
  /\ local'[p].body.grant_type = KEY_REFRESH_GRANT
  /\ local'[p].body.refresh_token = grant[g].RefreshToken
  /\ local'[p].body.refresh_token # ""
  /\ local'[p].body.username = "" /\ local'[p].body.password = ""
  /\ local'[p].body.client_id = CredOf(p).clientId
  /\ local'[p].body.client_secret = CredOf(p).clientSecret

\* The body of goroutine p's login requests after this step is a password
\* grant with username and password, client_id and client_secret of p's
\* credentials.
SendsPasswordGrant(p) ==
  /\ local'[p].body.grant_type = KEY_PASSWORD_GRANT
  /\ local'[p].body.username = CredOf(p).username
  /\ local'[p].body.password = CredOf(p).password
  /\ local'[p].body.refresh_token = ""
  /\ local'[p].body.client_id = CredOf(p).clientId
  /\ local'[p].body.client_secret = CredOf(p).clientSecret

\* Expired as the specification defines it: a timestamp is set and
\* elapsed >= ExpiresInSecs
ExpiredAsSpecified(g) ==
  grant[g].timestamp = "set" /\ elapsed[g] >= grant[g].ExpiresInSecs

\* The timestamp is set, ExpiresInSecs is not 0 and more than ExpiresInSecs
\* seconds have passed.
PastExpiry(g) ==
  /\ grant[g].timestamp = "set"
  /\ grant[g].ExpiresInSecs # 0
  /\ elapsed[g] > grant[g].ExpiresInSecs

\* The body stays the same for every request of one login.
SameBodyWhileInBody ==
  \A p \in Procs : (InBody(p) /\ pc'[p] \in {"login_wait", "sleep"}) =>
     local'[p].body = local[p].body

\* C19, as stated: a login sends a refresh grant with the stored refresh
\* token exactly when the grant is Expired (elapsed >= ExpiresInSecs) and its
\* refresh token is not empty, and a password grant with username and
\* password otherwise; every request carries client_id and client_secret.
C19_AsStated ==
  [][\A p \in Procs :
       (ChecksGrant(p) /\ StartsLogin(p)) =>
          IF ExpiredAsSpecified(GrantOf(p)) /\ grant[GrantOf(p)].RefreshToken # ""
          THEN SendsRefreshGrant(p, GrantOf(p))
          ELSE SendsPasswordGrant(p)]_vars

\* C19, amended: a login sends a refresh grant with the stored refresh token
\* exactly when the timestamp is set, ExpiresInSecs is not 0,
\* elapsed > ExpiresInSecs and the refresh token is not empty, and a
\* password grant with username and password otherwise; every request of
\* the login carries that body, with client_id and client_secret.
C19_GrantTypeByExpiry ==
  /\ [][\A p \in Procs :
          (ChecksGrant(p) /\ StartsLogin(p)) =>
             IF PastExpiry(GrantOf(p)) /\ grant[GrantOf(p)].RefreshToken # ""
             THEN SendsRefreshGrant(p, GrantOf(p))
             ELSE SendsPasswordGrant(p)]_vars
  /\ [][SameBodyWhileInBody]_vars

\* A refresh grant carrying the stored refresh token is in flight.
C19_Witness ==
  \E p \in Callers :
    /\ pc[p] = "login_wait"
    /\ local[p].body.grant_type = KEY_REFRESH_GRANT
    /\ local[p].body.refresh_token = "r1"
    /\ local[p].body.client_secret = "s1"

\* Goroutine p's login ends with this step: p is out of the retry loop, no
\* request of it is in flight, it does not sleep, and the lock is free.
LoginEnds(p) ==
  /\ pc'[p] \notin {"login_wait", "sleep"}
  /\ loginsSent'[p] = 0
  /\ slept'[p] = 0
  /\ tokenLock' = NoHolder

\* The grant holds what the answer carried and is stamped with the current
\* time.
StampedNow(g, resp) ==
  /\ grant'[g] = [Unmarshal(grant[g], resp) EXCEPT !.timestamp = "set"]
  /\ elapsed'[g] = 0

\* The next getAccessToken call for grant g returns the cached token without
\* a login request.
ValidForNextCall(g) == UseCached(g)'

\* C20, as stated: a login attempt answered without transport error and
\* with a non-error status ends the login – no further attempt, no further
\* sleep –, sets the timestamp to the current time and leaves the grant
\* Valid for the next getAccessToken call.
C20_AsStated ==
  [][\A p \in Procs : InFlight(p) => \A resp \in ResponsesFor(p) :
       (resp.status = "ok" /\ DoLogin(p, resp)) =>
          /\ LoginEnds(p)
          /\ StampedNow(GrantOf(p), resp)
          /\ ValidForNextCall(GrantOf(p))]_vars

\* C20, amended: such an attempt ends the login, sets the timestamp to the
\* current time and stores the answer; when the access token stored is not
\* empty the call returns it and the grant is Valid for the next call, when
\* it is empty the call returns "access token is empty" and the next call
\* logs in again.
C20_FirstSuccessEndsLogin ==
  [][\A p \in Procs : InFlight(p) => \A resp \in ResponsesFor(p) :
       (resp.status = "ok" /\ DoLogin(p, resp)) =>
          /\ LoginEnds(p)
          /\ StampedNow(GrantOf(p), resp)
          /\ IF grant'[GrantOf(p)].AccessToken # ""
             THEN /\ ValidForNextCall(GrantOf(p))
                  /\ local'[p].token = grant'[GrantOf(p)].AccessToken
             ELSE /\ ~ValidForNextCall(GrantOf(p))
                  /\ ReturnedError(p, Error("empty_token"))]_vars

\* A login has just succeeded: its caller holds the token stored, the grant
\* is stamped with no time passed since, and the lock is free.
C20_Witness ==
  \E p \in Callers :
    /\ pc[p] = "api_wait"
    /\ local[p].token # ""
    /\ local[p].token = grant["edaGrant"].AccessToken
    /\ grant["edaGrant"].timestamp = "set"
    /\ elapsed["edaGrant"] = 0
    /\ tokenLock = NoHolder
    /\ \A q \in Callers : q # p => pc[q] = "idle"

\* The delays of one login sequence, in seconds, by failed attempt 0 .. 3
DelaysStated == << 1, 2, 4, 8 >>

\* The seconds slept before attempt k is made
RECURSIVE SleptBefore(_)
SleptBefore(k) == IF k = 0 THEN 0 ELSE SleptBefore(k - 1) + DelaysStated[k]

\* C21: within one login sequence the sleep after failed attempt k (k = 0,
\* 1, 2, 3) lasts 2^k seconds (1, 2, 4, 8), no sleep follows failed attempt
\* 4, and a sequence whose 5 attempts all fail has slept 15 seconds in all.
C21_BackoffDelays ==
  /\ [](\A p \in Procs :
          /\ (pc[p] = "sleep" => local[p].attempt \in 0 .. 3)
          /\ (pc[p] \in {"login_wait", "sleep"} =>
                slept[p] = SleptBefore(local[p].attempt)))
  /\ [][\A p \in Procs :
          Sleep(p) =>
            /\ slept'[p] = slept[p] + DelaysStated[local[p].attempt + 1]
            /\ local'[p].attempt = local[p].attempt + 1]_vars
  /\ [][\A p \in Procs : InFlight(p) => \A resp \in ResponsesFor(p) :
          (resp.status # "ok" /\ DoLogin(p, resp)) =>
             IF local[p].attempt < 4
             THEN pc'[p] = "sleep" /\ slept'[p] = slept[p]
             ELSE /\ local[p].attempt = 4
                  /\ slept[p] = 15
                  /\ pc'[p] \notin {"sleep", "login_wait"}]_vars

\* The fifth attempt of a login is in flight after 15 seconds of sleep.
C21_Witness ==
  \E p \in Callers :
    pc[p] = "login_wait" /\ local[p].attempt = 4 /\ slept[p] = 15

\* Goroutine p is inside login: a request is in flight or it sleeps.
InLogin(p) == pc[p] \in {"login_wait", "sleep"}

\* getAccessToken of goroutine p returns an error with this step.
ReturnsError(p) == pc[p] = "login_wait" /\ pc'[p] \in {"done", "ctor_failed"}

\* The grant of goroutine p is as it was.
GrantKept(p) == grant'[GrantOf(p)] = grant[GrantOf(p)]

\* C27, as stated: when getAccessToken returns an error for a grant – every
\* login attempt failed, or the login gave an empty access token – the call
\* has left the grant as it was: nothing changes it while the call is in
\* login, and nothing changes it when the call returns the error.
C27_AsStated ==
  [][\A p \in Procs :
       /\ (InLogin(p) /\ InLogin(p)') => GrantKept(p)
       /\ ReturnsError(p) => GrantKept(p)]_vars

\* C27, amended: when getAccessToken returns an error because every login
\* attempt failed (transport error or error status), the call has left the
\* grant as it was; when it returns "access token is empty", the grant holds
\* what the 2xx answer carried, with an empty access token, and the
\* timestamp of the answer.
C27_GrantKeptWhenLoginFails ==
  [][\A p \in Procs :
       /\ (InLogin(p) /\ InLogin(p)') => GrantKept(p)
       /\ InFlight(p) => \A resp \in ResponsesFor(p) :
            (ReturnsError(p) /\ DoLogin(p, resp)) =>
               IF resp.status # "ok"
               THEN /\ GrantKept(p)
                    /\ ReturnedError(p, [kind |-> "login_failed", attempts |-> 5,
                                         last |-> resp.status])
               ELSE /\ ReturnedError(p, Error("empty_token"))
                    /\ grant'[GrantOf(p)].AccessToken = ""
                    /\ grant'[GrantOf(p)].timestamp = "set"
                    /\ elapsed'[GrantOf(p)] = 0
                    /\ "refresh_token" \in resp.has =>
                          grant'[GrantOf(p)].RefreshToken = resp.RefreshToken
                    /\ "expires_in" \in resp.has =>
                          grant'[GrantOf(p)].ExpiresInSecs = resp.ExpiresInSecs]_vars

\* An Execute call has returned "login failed after 5 attempts" for a grant
\* that holds the tokens of an earlier login, past their lifetime.
C27_Witness ==
  \E p \in Callers :
    /\ pc[p] = "done"
    /\ execErr[p].kind = "login_failed"
    /\ grant["edaGrant"].timestamp = "set"
    /\ grant["edaGrant"].AccessToken = "t1"
    /\ grant["edaGrant"].RefreshToken = "r1"
    /\ Expired("edaGrant")

\* Caller q waits for getAccessToken while the first login request of
\* caller p is answered with resp, a non-error answer.
FirstLoginAccepted(p, q, resp) ==
  /\ p # q
  /\ pc[q] = "call_token"
  /\ local[p].attempt = 0
  /\ resp.status = "ok"
  /\ DoLogin(p, resp)

\* After this step caller p holds the access token of the grant, the lock is
\* free and the token is there for the callers that wait: they need no login.
TokenThereForWaiting(p) ==
  /\ pc'[p] = "api_wait"
  /\ local'[p].token = grant'["edaGrant"].AccessToken
  /\ local'[p].token # ""
  /\ tokenLock' = NoHolder
  /\ elapsed'["edaGrant"] = 0

\* Another caller is in its Execute with the token the grant holds.
TokenInUseBeside(q) ==
  \E p \in Callers \ {q} :
    pc[p] = "api_wait" /\ local[p].token = grant["edaGrant"].AccessToken

\* One caller at most is inside login.
OneLoginAtATime ==
  \A p, q \in Callers : p # q => ~(InLogin(p) /\ InLogin(q))

\* C28, as stated: when callers call getAccessToken together for one grant
\* and the first login request is accepted, one login request is sent in
\* all and every caller returns the same token: the callers that wait send
\* nothing while one is in login, the accepted login leaves the token ready
\* for them, and each of them is then handed that token from the cache.
C28_AsStated ==
  /\ []OneLoginAtATime
  /\ [][\A p, q \in Callers : InFlight(p) => \A resp \in LoginResponses :
          FirstLoginAccepted(p, q, resp) => TokenThereForWaiting(p)]_vars
  /\ [][\A q \in Callers :
          (ChecksGrant(q) /\ TokenInUseBeside(q)) => ServedFromCache(q, "edaGrant")]_vars

\* C28, amended: the same, when the accepted login stored a non-empty access
\* token and the callers that wait come to check the grant before the token
\* is past its lifetime.
C28_OneLoginForWaitingCallers ==
  /\ []OneLoginAtATime
  /\ [][\A p, q \in Callers : InFlight(p) => \A resp \in LoginResponses :
          (FirstLoginAccepted(p, q, resp) /\ grant'["edaGrant"].AccessToken # "")
            => TokenThereForWaiting(p)]_vars
  /\ [][\A q \in Callers :
          (ChecksGrant(q) /\ TokenInUseBeside(q) /\ ~PastExpiry("edaGrant"))
            => ServedFromCache(q, "edaGrant")]_vars

\* Two callers are in their Execute with the same token, one request each,
\* and the grant was stamped by a login no time ago.
C28_Witness ==
  \E p, q \in Callers :
    /\ p # q
    /\ pc[p] = "api_wait" /\ pc[q] = "api_wait"
    /\ local[p].token = local[q].token
    /\ local[p].token = grant["edaGrant"].AccessToken
    /\ apiSent[p] = 1 /\ apiSent[q] = 1
    /\ elapsed["edaGrant"] = 0
    /\ tokenLock = NoHolder

\* C29: every getAccessToken call terminates. The goroutine that holds the
\* lock sends at most 5 login requests and sleeps at most 4 times, and
\* leaves login; and under fair scheduling a goroutine that waits for the
\* lock gets it and returns to its caller, on the keycloak pair (the call of
\* NewEdaApiClient) as on the eda pair.
C29_EveryCallTerminates ==
  /\ [](\A p \in Procs : loginsSent[p] <= 5 /\ local[p].attempt <= 4)
  /\ \A p \in Procs :
       (pc[p] \in {"call_token", "login_wait", "sleep"})
         ~> (pc[p] \notin {"call_token", "login_wait", "sleep"})

\* C29 happens: a goroutine waits for the lock while the holder, after four
\* failed attempts and four sleeps, has its fifth login request in flight.
C29_Witness ==
  \E p, q \in Callers :
    /\ p # q
    /\ pc[q] = "call_token"
    /\ tokenLock = p
    /\ pc[p] = "login_wait"
    /\ loginsSent[p] = 5
    /\ local[p].attempt = 4

\* The grant of the eda pair is past its lifetime and holds a refresh token:
\* the next getAccessToken call sends the refresh grant.
RefreshDue == Expired("edaGrant") /\ grant["edaGrant"].RefreshToken # ""

\* C30 as stated: when the identity provider rejects the refresh token of an
\* Expired grant on every attempt and accepts the username and password, a
\* later getAccessToken call for the pair succeeds, which leaves the grant
\* with a fresh token and not expired: the store falls back to the password
\* grant.
C30_AsStated == RefreshDue ~> ~Expired("edaGrant")

(* ------------------------------------------------------------------ *)
(* Claims: the case-preserving names                                    *)
(* ------------------------------------------------------------------ *)

\* The typed value v holds the keys of the native value d as they are: lists
\* element by element, every key of a map under the same key, at every depth.
RECURSIVE VerbatimTyped(_, _)
VerbatimTyped(d, v) ==
  CASE GoKind(d) = "list" ->
         \A i \in DOMAIN GoValue(d) : VerbatimTyped(GoValue(d)[i], Known(v)[i])
    [] GoKind(d) = "map" ->
         /\ DOMAIN GoValue(d) \subseteq DOMAIN Known(v)
         /\ \A key \in DOMAIN GoValue(d) : VerbatimTyped(GoValue(d)[key], Known(v)[key])
    [] OTHER -> TRUE

\* The entries of a typed list, map or object that are not null, which are
\* the ones fromValue converts
NotNullIn(v) ==
  IF IsNull(v) THEN {} ELSE { x \in DOMAIN Known(v) : ~IsNull(Known(v)[x]) }

\* The native value d holds the keys of the entries of the typed value v
\* that are not null as they are, at every depth.
RECURSIVE VerbatimNative(_, _)
VerbatimNative(v, d) ==
  CASE TypeKind(Type(v)) \in {"List", "Set"} ->
         LET NotNull(i) == i \in NotNullIn(v)
             kept == SelectSeq([i \in 1 .. Len(Known(v)) |-> i], NotNull)
         IN /\ Len(GoValue(d)) = Len(kept)
            /\ \A j \in 1 .. Len(kept) : VerbatimNative(Known(v)[kept[j]], GoValue(d)[j])
    [] TypeKind(Type(v)) \in {"Map", "Object"} ->
         /\ NotNullIn(v) \subseteq DOMAIN GoValue(d)
         /\ \A key \in NotNullIn(v) : VerbatimNative(Known(v)[key], GoValue(d)[key])
    [] OTHER -> TRUE

\* The case-preserving names among the keys of the native map converted
ScopesOpened ==
  IF convPc \in {"typed", "back"} /\ GoKind(data) = "map"
  THEN ignoreCaseNames \cap DOMAIN GoValue(data) ELSE {}

\* C11, as stated: when newValue or fromValue visits a field or key named
\* labels or annotations with no scope active, every map key nested below
\* it is copied as it is, in both directions.
C11_AsStated ==
  /\ \A key \in ScopesOpened :
        /\ key \in DOMAIN Known(attrValIf)
        /\ VerbatimTyped(GoValue(data)[key], Known(attrValIf)[key])
  /\ convPc = "back" =>
        \A key \in ScopesOpened :
          key \in NotNullIn(attrValIf) =>
            /\ key \in DOMAIN GoValue(anyVal)
            /\ VerbatimNative(Known(attrValIf)[key], GoValue(anyVal)[key])

(* ------------------------------------------------------------------ *)
(* Claims: models                                                       *)
(* ------------------------------------------------------------------ *)

\* The call being made fails.
CallFails == modelErr'

\* C12, as stated: when AnyMapToModel or FillMissingValues fails on some
\* field, the model is left as it was before the call.
C12_AsStated ==
  [][((AnyMapToModel \/ FillMissingValues) /\ CallFails) => model' = model]_vars

\* The call before this one was a FillMissingValues that succeeded.
FilledOnce == modelOp = "FillMissingValues" /\ ~modelErr

\* C13, as stated: on a model FillMissingValues has succeeded on, a second
\* FillMissingValues succeeds too and leaves the model as the first left it.
C13_AsStated ==
  [][(FilledOnce /\ FillMissingValues) => (~CallFails /\ model' = model)]_vars

\* v is Unknown, or a Dynamic value wrapping an Unknown one.
RECURSIVE Unresolved(_)
Unresolved(v) ==
  \/ IsUnknown(v)
  \/ TypeKind(Type(v)) = "Dynamic" /\ ~Skipped(v) /\ Unresolved(Known(v))

\* The native value d is made of the known parts of v alone: v is not
\* Unknown and wraps no Unknown, a scalar d is the value of v, the elements
\* of a list d are made in order of the elements of v that are neither Null
\* nor Unknown, and every entry of a map d is made of such an entry of v.
RECURSIVE FromKnown(_, _)
FromKnown(v, d) ==
  /\ ~Skipped(v)
  /\ CASE TypeKind(Type(v)) = "Dynamic" -> FromKnown(Known(v), d)
        [] TypeKind(Type(v)) \in {"List", "Set"} ->
             LET Contributes(i) == ~IsNull(Known(v)[i]) /\ ~Unresolved(Known(v)[i])
                 kept == SelectSeq([i \in 1 .. Len(Known(v)) |-> i], Contributes)
             IN /\ GoKind(d) = "list"
                /\ Len(GoValue(d)) = Len(kept)
                /\ \A j \in 1 .. Len(kept) : FromKnown(Known(v)[kept[j]], GoValue(d)[j])
        [] TypeKind(Type(v)) \in {"Map", "Object"} ->
             /\ GoKind(d) = "map"
             /\ \A key \in DOMAIN GoValue(d) : \E k \in DOMAIN Known(v) :
                  /\ FoldKey(k) = FoldKey(key)
                  /\ FromKnown(Known(v)[k], GoValue(d)[key])
        [] OTHER -> GoValue(d) = Known(v)

\* ModelToAnyMap has returned a body.
BodyReturned == modelOp = "ModelToAnyMap" /\ ~modelErr

\* C14, as stated: the body ModelToAnyMap returns holds nothing made of an
\* Unknown: every entry of it, at every depth, is made of a known field,
\* attribute, entry or element of the model, and none of a wrapped Unknown.
C14_AsStated ==
  BodyReturned =>
    \A key \in DOMAIN GoValue(body) : \E i \in DOMAIN model :
      /\ FoldKey(FieldName(model[i])) = FoldKey(key)
      /\ FromKnown(FieldValue(model[i]), GoValue(body)[key])

(* ------------------------------------------------------------------ *)
(* Claims: names                                                        *)
(* ------------------------------------------------------------------ *)

\* The underscore-separated segments of a name, and the ones that are not empty
SegmentsOf(x) == Split(x)
IsSegment(seg) == seg # << >>
NonEmptySegmentsOf(x) == SelectSeq(SegmentsOf(x), IsSegment)

IsAcronym(seg) == ToLowerString(seg) \in DOMAIN acronyms

\* The name has come back from SnakeToCamel and CamelToSnake.
NameRoundTripEnded == namePc = "snake"

\* An ordinary name as the claim has it: in lower case, with no entry in the
\* override table, no empty segment, no two acronym segments next to each
\* other
OrdinaryAsStated(x) ==
  /\ x = ToLowerString(x)
  /\ x \notin DOMAIN snakeToCamelNames
  /\ \A i \in DOMAIN SegmentsOf(x) : IsSegment(SegmentsOf(x)[i])
  /\ \A i \in 1 .. (Len(SegmentsOf(x)) - 1) :
       ~(IsAcronym(SegmentsOf(x)[i]) /\ IsAcronym(SegmentsOf(x)[i + 1]))

\* C15, as stated: for every lower-case name with no override-table entry,
\* no empty segment and no two adjacent acronym segments,
\* CamelToSnake(SnakeToCamel(x)) = x.
C15_AsStated ==
  (NameRoundTripEnded /\ OrdinaryAsStated(nameIn)) => snakeName = nameIn

\* The spelling has an upper-case letter right after a lower-case letter or
\* a digit.
HasInnerBoundary(spelling) ==
  \E i \in 1 .. (Len(spelling) - 1) :
    IsLowerOrDigit(spelling[i]) /\ IsUpper(spelling[i + 1])

\* A name in lower case with no entry in the override table, whose segments
\* are not empty and begin with a letter, and whose segments after the
\* first have two characters or more, are no acronym unless they come last,
\* and are no acronym spelled with an upper-case letter after a lower-case
\* letter or digit.
Ordinary(x) ==
  LET segs == SegmentsOf(x) IN
  /\ x = ToLowerString(x)
  /\ x \notin DOMAIN snakeToCamelNames
  /\ \A i \in DOMAIN segs : IsSegment(segs[i]) /\ segs[i][1] \notin Digits
  /\ \A i \in 2 .. Len(segs) :
       /\ Len(segs[i]) >= 2
       /\ IsAcronym(segs[i]) =>
            i = Len(segs) /\ ~HasInnerBoundary(acronyms[ToLowerString(segs[i])])

\* C15, amended: for every such name, CamelToSnake(SnakeToCamel(x)) = x.
C15_OrdinaryNamesRoundTrip ==
  (NameRoundTripEnded /\ Ordinary(nameIn)) => snakeName = nameIn

\* A name of two segments or more ending in an acronym has come back.
C15_Witness ==
  /\ NameRoundTripEnded
  /\ Ordinary(nameIn)
  /\ Len(SegmentsOf(nameIn)) >= 2
  /\ IsAcronym(SegmentsOf(nameIn)[Len(SegmentsOf(nameIn))])
  /\ camelName # nameIn
  /\ snakeName = nameIn

\* A segment as SnakeToCamel emits it: the spelling of the acronym table, or
\* the segment in lower case with its first letter in upper case
Emitted(seg) ==
  IF IsAcronym(seg) THEN acronyms[ToLowerString(seg)]
  ELSE << ToUpper(ToLowerString(seg)[1]) >> \o Tail(ToLowerString(seg))

\* The segments emitted for a name, in order, the first one in lower case
EmittedFor(x) ==
  LET segs == NonEmptySegmentsOf(x) IN
  [i \in 1 .. Len(segs) |->
     IF i = 1 THEN ToLowerString(Emitted(segs[i])) ELSE Emitted(segs[i])]

\* SnakeToCamel has returned.
CamelReturned == namePc \in {"camel", "snake"}

\* C16: SnakeToCamel returns for every name, and for a name with no entry in
\* the override table what it returns is the concatenation, over the
\* segments that are not empty, of the acronym spelling or the capitalised
\* lower-case segment, the first one emitted in lower case; for "" it is "".
C16_SnakeToCamelBySegments ==
  /\ (CamelReturned /\ nameIn \notin DOMAIN snakeToCamelNames) =>
        camelName = Join(EmittedFor(nameIn))
  /\ (CamelReturned /\ nameIn = << >>) => camelName = << >>

\* A name with an empty segment and an acronym after its first segment has
\* been converted.
C16_Witness ==
  /\ CamelReturned
  /\ nameIn \notin DOMAIN snakeToCamelNames
  /\ \E i \in DOMAIN SegmentsOf(nameIn) : ~IsSegment(SegmentsOf(nameIn)[i])
  /\ Len(NonEmptySegmentsOf(nameIn)) >= 2
  /\ IsAcronym(NonEmptySegmentsOf(nameIn)[2])
  /\ camelName = Join(EmittedFor(nameIn))

(* ------------------------------------------------------------------ *)
(* Claims: numbers                                                      *)
(* ------------------------------------------------------------------ *)

\* The 64-bit signed integer a native value stands for without loss, if it
\* stands for one: an integer, an unsigned one up to 2^63 - 1, a float with
\* no fraction, a string of decimal digits
Exact(d) ==
  CASE GoKind(d) \in {"int", "uint"} -> [ok |-> TRUE, v |-> GoValue(d)]
    [] GoKind(d) = "float" ->
         IF GoValue(d) % 10 = 0
         THEN [ok |-> TRUE, v |-> GoValue(d) \div 10] ELSE [ok |-> FALSE, v |-> 0]
    [] GoKind(d) = "string" ->
         IF GoValue(d) = "7" THEN [ok |-> TRUE, v |-> 7] ELSE [ok |-> FALSE, v |-> 0]
    [] OTHER -> [ok |-> FALSE, v |-> 0]

\* newValue has returned for an Int64 attribute and a value that is not nil.
Int64Converted ==
  /\ convPc \in {"typed", "back", "failed"}
  /\ attrTypeIf = Int64Type
  /\ data # Nil

\* C17, as stated: for an Int64 attribute newValue returns the exact integer
\* when the native value stands for one without loss, and an error for every
\* other value, such as an unsigned one above 2^63 - 1 or one with a fraction.
C17_AsStated ==
  Int64Converted =>
    IF Exact(data).ok
    THEN attrValIf = KnownValue(Int64Type, Exact(data).v)
    ELSE attrValIf = ConvError

(* ------------------------------------------------------------------ *)
(* Claims: the unknown values of models                                 *)
(* ------------------------------------------------------------------ *)

\* attrVal with every Unknown in it replaced by the null of its type,
\* wherever it is: an element, an entry, an attribute, the value a Dynamic
\* holds
RECURSIVE NulledEverywhere(_)
NulledEverywhere(attrVal) ==
  IF IsUnknown(attrVal) THEN NullValue(Type(attrVal))
  ELSE IF IsNull(attrVal) THEN attrVal
  ELSE CASE TypeKind(Type(attrVal)) \in {"Bool", "Int64", "String"} -> attrVal
         [] TypeKind(Type(attrVal)) = "Dynamic" ->
              KnownValue(Type(attrVal), NulledEverywhere(Known(attrVal)))
         [] OTHER ->
              KnownValue(Type(attrVal),
                         [x \in DOMAIN Known(attrVal) |->
                            NulledEverywhere(Known(attrVal)[x])])

\* attrVal with every Unknown replaced by the null of its type that is
\* attrVal itself or an attribute reached from it through known Objects only
RECURSIVE NulledThroughObjects(_)
NulledThroughObjects(attrVal) ==
  IF IsUnknown(attrVal) THEN NullValue(Type(attrVal))
  ELSE IF IsNull(attrVal) THEN attrVal
  ELSE IF TypeKind(Type(attrVal)) = "Object"
  THEN KnownValue(Type(attrVal),
                  [name \in DOMAIN Known(attrVal) |->
                     NulledThroughObjects(Known(attrVal)[name])])
  ELSE attrVal

\* FillMissingValues has been called and has returned nil.
FillSucceeds == FillMissingValues /\ ~modelErr'

\* C26, as stated: after FillMissingValues has succeeded every Unknown of
\* the model, at the top level and below, is replaced by the null of its own
\* type, and nothing else has changed.
C26_AsStated ==
  [][FillSucceeds =>
       \A i \in DOMAIN model :
         model'[i] = << FieldName(model[i]), NulledEverywhere(FieldValue(model[i])) >>]_vars

\* C26, amended: after FillMissingValues has succeeded every Unknown that is
\* the value of a field, or an attribute reached from a field through known
\* Objects only, is replaced by the null of its own type; the Unknowns among
\* the elements of lists and sets, the entries of maps and inside a known
\* Dynamic are left, and nothing else has changed.
C26_UnknownsBelowObjectsNulled ==
  [][FillSucceeds =>
       \A i \in DOMAIN model :
         model'[i] = << FieldName(model[i]), NulledThroughObjects(FieldValue(model[i])) >>]_vars

\* FillMissingValues has returned nil on a model whose field spec is an
\* object in an object: the attribute vlan_id at the bottom is null.
C26_Witness ==
  /\ modelOp = "FillMissingValues"
  /\ ~modelErr
  /\ calls = 1
  /\ Len(model) = 1
  /\ Type(FieldValue(model[1])) = SpecOfVlan
  /\ ~Skipped(FieldValue(model[1]))
  /\ ~Skipped(Known(FieldValue(model[1]))[<<"i", "n", "n", "e", "r">>])
  /\ IsNull(Known(Known(FieldValue(model[1]))[<<"i", "n", "n", "e", "r">>])
               [<<"v", "l", "a", "n", "_", "i", "d">>])

(* ------------------------------------------------------------------ *)
(* Claims: the visits of maps and objects                               *)
(* ------------------------------------------------------------------ *)

\* The visitId the call with locals f opened and has not closed
OpenedBy(f) == IF f.visitId # f.oldVisitId THEN {f.visitId} ELSE {}

\* Goroutine t's traversal is over.
Finished(t) == tpc[t] \in {"done", "failed"}

\* C22, as stated: every visitId a call set in ignoreCaseVisitor is deleted
\* from it before that call returns, whichever way it returns, and once a
\* traversal is over ignoreCaseVisitor holds none of the visitIds issued to it.
C22_AsStated ==
  /\ [][\A t \in Travs : \A i \in DOMAIN stack[t] :
          i > Len(stack'[t]) => OpenedBy(stack[t][i]) \cap ignoreCaseVisitor' = {}]_vars
  /\ [](\A t \in Travs : Finished(t) => issued[t] \cap ignoreCaseVisitor = {})

\* The keys of the iterations goroutine t is in, from the outermost call to
\* the innermost, hold a case-preserving name: the iteration of the
\* innermost call is for that key or below it.
BelowPreserved(t) ==
  \E i \in DOMAIN stack[t] : stack[t][i].key \in ignoreCaseNames

\* Goroutine t stores the value of the key of its iteration.
StoresKey(t) == tpc[t] = "store" /\ tpc'[t] # "store" /\ ~fatal'

\* The innermost call of goroutine t has stored what its recursive call
\* returned under key, and nothing else.
StoredUnderKey(t, key) ==
  LET f == stack[t][Len(stack[t])]
      g == stack'[t][Len(stack'[t])]
  IN /\ DOMAIN g.out = DOMAIN f.out \cup {key}
     /\ g.out[key] = f.res
     /\ \A k \in DOMAIN f.out \ {key} : g.out[k] = f.out[k]

\* newValue keeps the names of the attributes of an Object as they are.
KeepsNames(call) == Callee(call) = "newValue" /\ TypeKind(TypeOf(call)) = "Object"

\* What the traversal of goroutine t returns is what its call returns when
\* the case of a key is kept exactly at and below case-preserving keys.
AsOnItsOwn(t) ==
  /\ tpc[t] = "done" => ret[t] \in Converted(job[t], FALSE) \ {ConvError}
  /\ tpc[t] = "failed" => ConvError \in Converted(job[t], FALSE)

\* C23: the case of keys is kept only in the subtree of a case-preserving
\* key: a key is stored as it is when it is, or lies below, such a key, and
\* in every other place – the entries visited after a case-preserving entry
\* of the same map or object among them – converted as if no such key were
\* there, in whichever order the entries are visited; every iteration starts
\* with the visitId its call was given.
C23_NoLeakToSiblings ==
  /\ [][\A t \in Travs :
          StoresKey(t) =>
            LET f == stack[t][Len(stack[t])] IN
            StoredUnderKey(t, IF BelowPreserved(t) \/ KeepsNames(f.call)
                              THEN f.key ELSE SnakeToCamel(f.key))]_vars
  /\ [](\A t \in Travs :
          /\ tpc[t] = "loop" =>
                stack[t][Len(stack[t])].visitId = stack[t][Len(stack[t])].oldVisitId
          /\ AsOnItsOwn(t))

\* A map of maps is being converted: the entry "labels" has been stored, with
\* the key "a_b" below it kept, and the entry "a_b", visited after it, has
\* had the key "a_b" below it stored as "aB".
C23_Witness ==
  \E t \in Travs :
    /\ tpc[t] = "loop"
    /\ Len(stack[t]) = 2
    /\ stack[t][1].key = <<"a", "_", "b">>
    /\ <<"l", "a", "b", "e", "l", "s">> \in DOMAIN stack[t][1].out
    /\ <<"a", "_", "b">> \in
         DOMAIN Known(stack[t][1].out[<<"l", "a", "b", "e", "l", "s">>])
    /\ DOMAIN stack[t][2].out = { <<"a", "B">> }

\* C24, as stated: with several traversals at once every visitId is issued
\* to one traversal and once only, every traversal returns what it returns
\* on its own, and no interleaving of the reads of, the assignments to and
\* the deletes from ignoreCaseVisitor ends in a corrupted state.
C24_AsStated ==
  /\ \A t, u \in Travs : t # u => issued[t] \cap issued[u] = {}
  /\ Cardinality(UNION { issued[t] : t \in Travs }) = visitCounter
  /\ \A t \in Travs : AsOnItsOwn(t)
  /\ ~fatal

\* The visitIds are issued to one traversal each and once only.
C24_IdsIssuedOnce ==
  /\ \A t, u \in Travs : t # u => issued[t] \cap issued[u] = {}
  /\ Cardinality(UNION { issued[t] : t \in Travs }) = visitCounter

\* A key in camel case: no "_" in it
IsCamelStyle(k) == \A i \in DOMAIN k : k[i] # "_"

\* C25, as stated: with no scope active newValue stores the value of a
\* camel-case key of a native map under CamelToSnake of the key, and
\* fromValue stores the value of a key of a map or of an attribute of an
\* object under SnakeToCamel of it.
C25_AsStated ==
  [][\A t \in Travs :
       (StoresKey(t) /\ ~BelowPreserved(t)) =>
         LET f == stack[t][Len(stack[t])] IN
         /\ (Callee(f.call) = "newValue" /\ TypeKind(TypeOf(f.call)) = "Map"
               /\ IsCamelStyle(f.key))
              => StoredUnderKey(t, CamelToSnake(f.key))
         /\ Callee(f.call) = "fromValue" => StoredUnderKey(t, SnakeToCamel(f.key))]_vars

\* The part of C25 about fromValue
C25_FromValueToCamel ==
  [][\A t \in Travs :
       (StoresKey(t) /\ ~BelowPreserved(t)) =>
         LET f == stack[t][Len(stack[t])] IN
         Callee(f.call) = "fromValue" => StoredUnderKey(t, SnakeToCamel(f.key))]_vars

====
